---------------------------- MODULE Spec2Model ----------------------------
(***************************************************************************)
(* SpendDAG construction of sn_client (audit/spend_dag_building.rs):       *)
(* the forward builder spend_dag_build_from, the backward extender         *)
(* spend_dag_extend_until and the UTXO continuation                        *)
(* spend_dag_continue_from_utxos, run against a remote spend store.        *)
(***************************************************************************)
EXTENDS Integers, Sequences, FiniteSets, TLC

(***************************************************************************)
(* Bounds of the model.                                                    *)
(***************************************************************************)
\* operations (build_from / extend_until / continue_from_utxos) per session
MaxOps == 2
\* GETs that the store may answer with a Transient error per session
MaxTransient == 1
\* cap of the generation counter of one forward build
MaxGen == 6
\* forward-build tasks that may panic in one continue_from_utxos
MaxPanic == 1
\* nodes in the inventory or registry a NodeRestart is made of
MaxNodes == 3
\* calls of restart_next on one NodeRestart
MaxCalls == 4
\* process ids the service manager hands out
MaxPid == 2
\* calls of start_daemon and stop_daemon on one daemon
MaxDaemonCalls == 4
\* operations of one wallet client
MaxWalletCalls == 2
\* the largest amount of NanoTokens, which checked_add does not exceed
MaxNano == 7
\* line 383 of wallet.rs: the resend attempts after which send gives up
RetryLimit == 10

(***************************************************************************)
(* Keys, addresses, transactions and spends.                               *)
(***************************************************************************)
Keys == 1..6

\* SpendAddress::from_unique_pubkey: a deterministic, injective derivation
AddressOf(k) == 100 + k

Addrs == {AddressOf(k) : k \in Keys}

\* GENESIS_CASHNOTE.id
GenesisId == 1

MkTx(ins, outs) == [inputs |-> ins, outputs |-> outs]

MkSpend(k, parent, spent) == [unique_pubkey |-> k, parent_tx |-> parent, spent_tx |-> spent]

\* GENESIS_CASHNOTE.src_tx: its single input and output carry the Genesis key
GenesisTx == MkTx(<<GenesisId>>, <<GenesisId>>)

\* The ledger the store draws its records from.
\* T1 spends Genesis into keys 3 and 2; T2 joins 3 and 2 (inputs not in key
\* order) into key 4; T2b spends key 2 a second time; T3 spends key 4 into the
\* never-spent key 6; TC is a forged transaction that spends key 5 into key 5.
T1 == MkTx(<<GenesisId>>, <<3, 2>>)
T2 == MkTx(<<3, 2>>, <<4>>)
T2b == MkTx(<<2>>, <<4>>)
T3 == MkTx(<<4>>, <<6>>)
TC == MkTx(<<5>>, <<5>>)
NoTx == MkTx(<<>>, <<>>)
\* T4 joins key 3 with the key 4 that T2b made of key 2, so that T1 is an
\* ancestor of T4 at two different depths; T6 spends the output of T4
T4 == MkTx(<<3, 4>>, <<6>>)
T6 == MkTx(<<6>>, <<5>>)

TxSeq == <<GenesisTx, T1, T2, T2b, T3, TC, NoTx, T4, T6>>

Txs == {TxSeq[i] : i \in 1..Len(TxSeq)}

\* Transaction::hash: deterministic and collision-free on the ledger
Hash(tx) == 1000 + (CHOOSE i \in 1..Len(TxSeq) : TxSeq[i] = tx)

SG == MkSpend(GenesisId, GenesisTx, T1)
S2 == MkSpend(2, T1, T2)
S2b == MkSpend(2, T1, T2b)
S3 == MkSpend(3, T1, T2)
S4 == MkSpend(4, T2, T3)
S5 == MkSpend(5, TC, TC)
NoSpend == MkSpend(0, NoTx, NoTx)

Spends == {SG, S2, S2b, S3, S4, S5}

SpendsAt(a) == {s \in Spends : AddressOf(s.unique_pubkey) = a}

\* The stores: every address holds any subset of the ledger's spends of that
\* address (none: the output is unspent; two: a double spend is served).
StoreOf(P) == [a \in Addrs |-> SpendsAt(a) \cap P]

Stores == {StoreOf(P) : P \in SUBSET Spends}

\* Lexicographic order of two sequences of keys (derived Ord of a Vec)
RECURSIVE LexLess(_, _)
LexLess(s, t) ==
    IF t = <<>> THEN FALSE
    ELSE IF s = <<>> THEN TRUE
    ELSE IF Head(s) # Head(t) THEN Head(s) < Head(t)
    ELSE LexLess(Tail(s), Tail(t))

\* derived Ord of Transaction: inputs first, then outputs
TxLess(a, b) ==
    \/ LexLess(a.inputs, b.inputs)
    \/ a.inputs = b.inputs /\ LexLess(a.outputs, b.outputs)

\* iteration order of a BTreeSet<Transaction>
RECURSIVE SortTxs(_)
SortTxs(S) ==
    IF S = {} THEN <<>>
    ELSE LET m == CHOOSE x \in S : \A y \in S \ {x} : TxLess(x, y)
         IN <<m>> \o SortTxs(S \ {m})

\* iteration order of a BTreeSet<SignedSpend>: the unique_pubkey is the first
\* field compared, and the spends of one batch differ in it or in their
\* spent transaction
SpendLess(a, b) ==
    \/ a.unique_pubkey < b.unique_pubkey
    \/ a.unique_pubkey = b.unique_pubkey /\ TxLess(a.spent_tx, b.spent_tx)

RECURSIVE SortSpends(_)
SortSpends(S) ==
    IF S = {} THEN <<>>
    ELSE LET m == CHOOSE x \in S : \A y \in S \ {x} : SpendLess(x, y)
         IN <<m>> \o SortSpends(S \ {m})

SeqRange(s) == {s[i] : i \in 1..Len(s)}

RECURSIVE Concat(_)
Concat(ss) == IF ss = <<>> THEN <<>> ELSE Head(ss) \o Concat(Tail(ss))

(***************************************************************************)
(* SpendDag: address -> the spends recorded there, in order of arrival.    *)
(* <<>> is Absent, one spend is Present, more are a double-spend marker.   *)
(***************************************************************************)
EmptyDag == [a \in Addrs |-> <<>>]

Contains(d, a, s) == s \in SeqRange(d[a])

DagAddrs(d) == {a \in Addrs : d[a] # <<>>}

DagSpends(d) == UNION {SeqRange(d[a]) : a \in Addrs}

IsDoubleSpend(d, a) == Len(d[a]) >= 2

Insert(d, a, s) == IF Contains(d, a, s) THEN d ELSE [d EXCEPT ![a] = Append(@, s)]

\* check_and_insert: the DAG after it, and whether the spend was new to a
\* (no failing case of check_and_insert is described, so its Err, which
\* extend_until maps to CouldNotVerifyTransfer, has no transition here)
CheckAndInsertIsNew(d, a, s) == ~Contains(d, a, s)

CheckAndInsert(d, a, s) == Insert(d, a, s)

RECURSIVE InsertAll(_, _, _)
InsertAll(d, a, ss) ==
    IF ss = <<>> THEN d ELSE InsertAll(Insert(d, a, Head(ss)), a, Tail(ss))

RECURSIVE MergeAddrs(_, _, _)
MergeAddrs(d, other, as) ==
    IF as = {} THEN d
    ELSE LET a == CHOOSE x \in as : TRUE
         IN MergeAddrs(InsertAll(d, a, other[a]), other, as \ {a})

Merge(d, other) == MergeAddrs(d, other, Addrs)

\* get_utxos: the output keys of the spent transactions, less the addresses held
GetUtxos(d) ==
    (UNION {{AddressOf(k) : k \in SeqRange(s.spent_tx.outputs)} : s \in DagSpends(d)})
        \ DagAddrs(d)

\* Transaction::verify_against_inputs_spent: the spends are exactly those of
\* the declared inputs and each one is signed over this transaction
VerifyAgainstInputsSpent(tx, spends) ==
    /\ spends # {}
    /\ Cardinality(spends) = Len(tx.inputs)
    /\ {s.unique_pubkey : s \in spends} = SeqRange(tx.inputs)
    /\ \A s \in spends : s.spent_tx = tx

\* SpendDag::verify: the recorded issues; the DAG is only read
DagTxs(d) == {s.parent_tx : s \in DagSpends(d)} \cup {s.spent_tx : s \in DagSpends(d)}

InputSpends(d, tx) == {s \in DagSpends(d) : s.unique_pubkey \in SeqRange(tx.inputs)}

Verify(d, root) ==
    (IF d[root] = <<>> THEN {[kind |-> "RootMissing", at |-> root]} ELSE {})
    \cup {[kind |-> "DoubleSpend", at |-> a] : a \in {x \in Addrs : IsDoubleSpend(d, x)}}
    \cup {[kind |-> "InvalidTx", at |-> Hash(tx)] :
            tx \in {t \in DagTxs(d) :
                /\ t # GenesisTx
                /\ {s.unique_pubkey : s \in InputSpends(d, t)} = SeqRange(t.inputs)
                /\ ~VerifyAgainstInputsSpent(t, InputSpends(d, t))}}

(***************************************************************************)
(* State.                                                                  *)
(***************************************************************************)
VARIABLES
    store,       \* the remote spend store: address -> the spends it may serve
    dag,         \* the session's SpendDag
    pc,          \* the operation in progress: idle, build, extend, continue
    tasks,       \* the forward builds in progress, by root address
    ex,          \* the locals of the spend_dag_extend_until in progress
    ret,         \* the last operation that returned, and its result
    nOps,        \* operations started
    nTransient,  \* Transient answers given by the store
    hv,          \* the session's history: the DAG when the operation began,
                 \* whether a forward build ran, what extend_until verified
    inventory_file,       \* NodeRestart: the deployment inventory or node registry
    next_to_restart_idx,  \* NodeRestart: index of the next node to restart
    out,                  \* what the last restart_next was called with and returned
    hr,                   \* history of the restart_next calls
    daemon,      \* node manager: the Daemon of the node registry
    process,     \* node manager: the pid of the daemon's service process, if any
    dout,        \* what the last start_daemon or stop_daemon found and returned
    hd,          \* start_daemon and stop_daemon calls made
    wallet,      \* wallet client: the LocalWallet in memory and on disk
    wout,        \* what the last wallet operation was given and returned
    hw           \* wallet operations made

dvars == <<store, dag, pc, tasks, ex, ret, nOps, nTransient, hv>>

rvars == <<inventory_file, next_to_restart_idx, out, hr>>

mvars == <<daemon, process, dout, hd>>

wvars == <<wallet, wout, hw>>

\* what a SpendDAG session leaves alone
avars == <<rvars, mvars, wvars>>

vars == <<dvars, rvars, mvars, wvars>>

(***************************************************************************)
(* Client::get_spend_from_network: the answers a GET of address a can get. *)
(***************************************************************************)
Resp(k, s) == [kind |-> k, spend |-> s]

Pending == Resp("Pending", NoSpend)

Answers(a) ==
    {Resp("Ok", s) : s \in store[a]}
    \cup (IF store[a] = {} THEN {Resp("Missing", NoSpend)} ELSE {})
    \cup (IF nTransient < MaxTransient THEN {Resp("Transient", NoSpend)} ELSE {})

CountTransient(r) == IF r.kind = "Transient" THEN nTransient + 1 ELSE nTransient

AllPending(n) == [i \in 1..n |-> Pending]

\* AllAnswered that is content with the first GET that completes
SomeAnswered(res) == \E i \in 1..Len(res) : res[i].kind # "Pending"

AllAnswered(res) == \A i \in 1..Len(res) : res[i].kind # "Pending"

(***************************************************************************)
(* spend_dag_build_from, as the task that runs it.                         *)
(***************************************************************************)
IdleTask ==
    [st |-> "idle", dag |-> EmptyDag, follow |-> {}, known |-> {}, gen |-> 0,
     addrs |-> <<>>, res |-> <<>>, result |-> "none", issues |-> {},
     rootKind |-> "none", first |-> NoSpend, got |-> {}, lost |-> {}, nGets |-> 0]

\* the task is spawned and its GET of the root address is in flight
SpawnedTask == [IdleTask EXCEPT !.st = "root", !.nGets = 1]

\* OutputAddrs with the addresses of the inputs of the transactions to follow
OutputAddrsOfInputs(follow) ==
    LET txs == SortTxs(follow)
    IN Concat([i \in 1..Len(txs) |->
                 [j \in 1..Len(txs[i].inputs) |-> AddressOf(txs[i].inputs[j])]])

\* OutputAddrs with only the first output of each transaction followed
OutputAddrsFirstOnly(follow) ==
    LET txs == SortTxs(follow)
    IN Concat([i \in 1..Len(txs) |->
                 IF txs[i].outputs = <<>> THEN <<>>
                 ELSE <<AddressOf(Head(txs[i].outputs))>>])

\* lines 49-64: the addresses of the outputs of the transactions to follow
OutputAddrs(follow) ==
    LET txs == SortTxs(follow)
    IN Concat([i \in 1..Len(txs) |->
                 [j \in 1..Len(txs[i].outputs) |-> AddressOf(txs[i].outputs[j])]])

\* one generation's GETs are issued as one batch
IssueGeneration(t, follow) ==
    LET as == OutputAddrs(follow)
    IN [t EXCEPT !.st = "fetch", !.follow = follow, !.addrs = as,
                 !.res = AllPending(Len(as)), !.nGets = @ + Len(as)]

\* RootAnswered with a Missing root treated as any other error
RootAnsweredMissingFails(t, root, r) ==
    IF r.kind = "Ok"
    THEN IssueGeneration([t EXCEPT !.dag = Insert(EmptyDag, root, r.spend),
                                   !.rootKind = "Ok", !.first = r.spend],
                         {r.spend.spent_tx})
    ELSE [t EXCEPT !.st = "done", !.result = "FailedToGetSpend", !.rootKind = r.kind]

\* RootAnswered with every error of the root GET taken for an unspent output
RootAnsweredErrorIsUtxo(t, root, r) ==
    IF r.kind = "Ok"
    THEN IssueGeneration([t EXCEPT !.dag = Insert(EmptyDag, root, r.spend),
                                   !.rootKind = "Ok", !.first = r.spend],
                         {r.spend.spent_tx})
    ELSE [t EXCEPT !.st = "done", !.result = "Ok", !.rootKind = r.kind]

\* lines 26-38: the answer to the GET of the root address
RootAnswered(t, root, r) ==
    IF r.kind = "Ok"
    THEN IssueGeneration([t EXCEPT !.dag = Insert(EmptyDag, root, r.spend),
                                   !.rootKind = "Ok", !.first = r.spend],
                         {r.spend.spent_tx})
    ELSE IF r.kind = "Missing"
    THEN [t EXCEPT !.st = "done", !.result = "Ok", !.rootKind = "Missing"]
    ELSE [t EXCEPT !.st = "done", !.result = "FailedToGetSpend", !.rootKind = "Transient"]

\* ApplyResults that stops at the first answer that is an error other than
\* Missing
RECURSIVE ApplyResultsStopsAtError(_, _, _)
ApplyResultsStopsAtError(d, res, addrs) ==
    IF res = <<>> \/ addrs = <<>> \/ Head(res).kind = "Transient" THEN d
    ELSE ApplyResultsStopsAtError(
            IF Head(res).kind = "Ok" THEN Insert(d, Head(addrs), Head(res).spend) ELSE d,
            Tail(res), Tail(addrs))

\* ApplyResults that keeps the first spend recorded at an address
RECURSIVE ApplyResultsFirstWins(_, _, _)
ApplyResultsFirstWins(d, res, addrs) ==
    IF res = <<>> \/ addrs = <<>> THEN d
    ELSE ApplyResultsFirstWins(
            IF Head(res).kind = "Ok" /\ d[Head(addrs)] = <<>>
            THEN Insert(d, Head(addrs), Head(res).spend) ELSE d,
            Tail(res), Tail(addrs))

\* lines 76-89: the answers of a generation applied to the DAG, in batch order
RECURSIVE ApplyResults(_, _, _)
ApplyResults(d, res, addrs) ==
    IF res = <<>> \/ addrs = <<>> THEN d
    ELSE ApplyResults(
            IF Head(res).kind = "Ok" THEN Insert(d, Head(addrs), Head(res).spend) ELSE d,
            Tail(res), Tail(addrs))

\* line 80: the spent transactions of the spends a generation got
NextGenTx(res, addrs) ==
    {res[i].spend.spent_tx : i \in {j \in 1..Len(res) : j <= Len(addrs) /\ res[j].kind = "Ok"}}

\* ToFollow without the filter of the transactions already gathered
ToFollowAll(next, known) == next

\* lines 91-97: only follow the transactions not already gathered
ToFollow(next, known) == {tx \in next : Hash(tx) \notin known}

\* lines 72-98: the joined generation is applied and the next one is issued
Collate(t) ==
    LET d == ApplyResults(t.dag, t.res, t.addrs)
        known == t.known \cup {Hash(tx) : tx \in t.follow}
        follow == ToFollow(NextGenTx(t.res, t.addrs), known)
        n == Len(t.res)
        u == [t EXCEPT !.dag = d, !.known = known, !.gen = @ + 1,
                       !.got = @ \cup {<<t.addrs[i], t.res[i].spend>> :
                                         i \in {j \in 1..n : t.res[j].kind = "Ok"}},
                       !.lost = @ \cup {t.addrs[i] :
                                         i \in {j \in 1..n : t.res[j].kind = "Transient"}}]
    IN IF follow = {}
       THEN [u EXCEPT !.st = "verify", !.follow = {}, !.addrs = <<>>, !.res = <<>>]
       ELSE IssueGeneration(u, follow)

\* Verified with a build that fails when the verification records an issue
VerifiedRejects(t, root) ==
    [t EXCEPT !.st = "done",
              !.result = IF Verify(t.dag, root) = {} THEN "Ok" ELSE "CouldNotVerifyTransfer",
              !.issues = Verify(t.dag, root)]

\* lines 103-110: the DAG is verified, the issues are logged, the DAG returned
Verified(t, root) ==
    [t EXCEPT !.st = "done", !.result = "Ok", !.issues = Verify(t.dag, root)]

TaskRootResp(a) ==
    /\ pc \in {"build", "continue"}
    /\ tasks[a].st = "root"
    /\ \E r \in Answers(a) :
         /\ tasks' = [tasks EXCEPT ![a] = RootAnswered(@, a, r)]
         /\ nTransient' = CountTransient(r)
    /\ UNCHANGED <<store, dag, pc, ex, ret, nOps, hv>>
    /\ UNCHANGED avars

TaskGetResp(a) ==
    /\ pc \in {"build", "continue"}
    /\ tasks[a].st = "fetch"
    /\ \E i \in 1..Len(tasks[a].res) :
         /\ tasks[a].res[i] = Pending
         /\ \E r \in Answers(tasks[a].addrs[i]) :
              /\ tasks' = [tasks EXCEPT ![a].res[i] = r]
              /\ nTransient' = CountTransient(r)
    /\ UNCHANGED <<store, dag, pc, ex, ret, nOps, hv>>
    /\ UNCHANGED avars

TaskCollate(a) ==
    /\ pc \in {"build", "continue"}
    /\ tasks[a].st = "fetch"
    /\ AllAnswered(tasks[a].res)
    /\ tasks[a].gen < MaxGen
    /\ tasks' = [tasks EXCEPT ![a] = Collate(@)]
    /\ UNCHANGED <<store, dag, pc, ex, ret, nOps, nTransient, hv>>
    /\ UNCHANGED avars

TaskVerify(a) ==
    /\ pc \in {"build", "continue"}
    /\ tasks[a].st = "verify"
    /\ tasks' = [tasks EXCEPT ![a] = Verified(@, a)]
    /\ UNCHANGED <<store, dag, pc, ex, ret, nOps, nTransient, hv>>
    /\ UNCHANGED avars

\* the locals of spend_dag_extend_until before a call
IdleEx ==
    [st |-> "idle", addr |-> 0, spend |-> NoSpend, cur |-> NoTx, queue |-> <<>>,
     addrs |-> <<>>, res |-> <<>>, next |-> {}, verified |-> {}, depth |-> 0,
     dag0 |-> EmptyDag, errSeen |-> FALSE, inputs |-> {}, genesis |-> {},
     failedTx |-> NoTx, nGets |-> 0]

NoTasks == [a \in Addrs |-> IdleTask]

Ret(op, at, res) == [op |-> op, at |-> at, res |-> res]

\* the session builds its DAG from a root address
BuildFrom(root) ==
    /\ pc = "idle"
    /\ nOps < MaxOps
    /\ dag = EmptyDag
    /\ pc' = "build"
    /\ nOps' = nOps + 1
    /\ tasks' = [NoTasks EXCEPT ![root] = SpawnedTask]
    /\ ex' = IdleEx
    /\ ret' = Ret("none", 0, "none")
    /\ UNCHANGED <<store, dag, nTransient>>
    /\ hv' = [hv EXCEPT !.built = TRUE, !.dag0 = dag]
    /\ UNCHANGED avars

BuildReturn(root) ==
    /\ pc = "build"
    /\ tasks[root].st = "done"
    /\ pc' = "idle"
    /\ dag' = IF tasks[root].result = "Ok" THEN tasks[root].dag ELSE dag
    /\ ret' = Ret("build", root, tasks[root].result)
    /\ tasks' = [tasks EXCEPT ![root].st = "joined"]
    /\ UNCHANGED <<store, ex, nOps, nTransient, hv>>
    /\ UNCHANGED avars

(***************************************************************************)
(* spend_dag_extend_until.                                                 *)
(***************************************************************************)
\* lines 158-167: the GETs of the input addresses of one parent transaction
InputAddrs(tx) == [j \in 1..Len(tx.inputs) |-> AddressOf(tx.inputs[j])]

IssueTx(e, txs) ==
    LET tx == Head(txs)
    IN [e EXCEPT !.st = "fetch", !.cur = tx, !.queue = Tail(txs),
                 !.addrs = InputAddrs(tx), !.res = AllPending(Len(tx.inputs)),
                 !.nGets = @ + Len(tx.inputs)]

\* ExtendStarted that verifies the parent of a spend the DAG already holds
ExtendStartedAlwaysVerifies(d, addr, s) ==
    LET e == [IdleEx EXCEPT !.addr = addr, !.spend = s, !.dag0 = d]
    IN [dag |-> CheckAndInsert(d, addr, s), ex |-> IssueTx(e, <<s.parent_tx>>)]

\* lines 139-152: the new spend is recorded and its parent is the first to verify
ExtendStarted(d, addr, s) ==
    LET e == [IdleEx EXCEPT !.addr = addr, !.spend = s, !.dag0 = d]
    IN IF ~CheckAndInsertIsNew(d, addr, s)
       THEN [dag |-> d, ex |-> [e EXCEPT !.st = "ok"]]
       ELSE [dag |-> CheckAndInsert(d, addr, s), ex |-> IssueTx(e, <<s.parent_tx>>)]

\* lines 168-171: any failed GET fails the batch
GetsFailed(res) == \E i \in 1..Len(res) : res[i].kind # "Ok"

\* lines 179-183: the Genesis transaction, spent by the one Genesis spend
ReachedGenesis(tx, spends) ==
    /\ tx = GenesisTx
    /\ \A s \in spends : s.unique_pubkey = GenesisId
    /\ Cardinality(spends) = 1

\* lines 198-210: the spends, in set order, are paired with the input addresses
RECURSIVE AddSpends(_, _, _)
AddSpends(acc, spends, addrs) ==
    IF spends = <<>> \/ addrs = <<>> THEN acc
    ELSE LET s == Head(spends)
             a == Head(addrs)
         IN AddSpends(
              [dag |-> CheckAndInsert(acc.dag, a, s),
               next |-> IF CheckAndInsertIsNew(acc.dag, a, s)
                        THEN acc.next \cup {s.parent_tx} ELSE acc.next],
              Tail(spends), Tail(addrs))

\* ToVerify that ends the ascent after the first parent transaction
ToVerifyNone(next, verified) == {}

\* ToVerify without the filter of the transactions already verified
ToVerifyAll(next, verified) == next

\* lines 213-217: only verify the parents not already verified
ToVerify(next, verified) == {tx \in next : Hash(tx) \notin verified}

\* the next parent of this depth, or the next depth, or the end of the loop
Advance(d, e) ==
    IF e.queue # <<>>
    THEN [dag |-> d, ex |-> IssueTx(e, e.queue)]
    ELSE LET txs == ToVerify(e.next, e.verified)
             f == [e EXCEPT !.depth = @ + 1, !.next = {}]
         IN IF txs = {}
            THEN [dag |-> d, ex |-> [f EXCEPT !.st = "ok", !.cur = NoTx,
                                              !.addrs = <<>>, !.res = <<>>]]
            ELSE [dag |-> d, ex |-> IssueTx(f, SortTxs(txs))]

Failed(d, e) == [dag |-> d, ex |-> [e EXCEPT !.st = "failed", !.failedTx = e.cur]]

\* JoinTx with a failed GET logged and its parent transaction skipped, as the
\* forward build does
JoinTxSkipsFailedGets(d, e) ==
    LET spends == {e.res[i].spend : i \in 1..Len(e.res)}
        f == [e EXCEPT !.addrs = <<>>, !.res = <<>>]
    IN IF GetsFailed(e.res) THEN Advance(d, f)
       ELSE IF ReachedGenesis(e.cur, spends)
       THEN Advance(d, [f EXCEPT !.verified = @ \cup {Hash(e.cur)},
                                 !.genesis = @ \cup {Hash(e.cur)}])
       ELSE IF ~VerifyAgainstInputsSpent(e.cur, spends) THEN Failed(d, f)
       ELSE LET acc == AddSpends([dag |-> d, next |-> e.next],
                                 SortSpends(spends), e.addrs)
            IN Advance(acc.dag,
                       [f EXCEPT !.verified = @ \cup {Hash(e.cur)},
                                 !.next = acc.next,
                                 !.inputs = @ \cup {<<Hash(e.cur), s>> : s \in spends}])

\* JoinTx with the fetched spends added to the DAG before the transaction is
\* verified against them
JoinTxInsertsBeforeVerify(d, e) ==
    LET spends == {e.res[i].spend : i \in 1..Len(e.res)}
        f == [e EXCEPT !.addrs = <<>>, !.res = <<>>]
        acc == AddSpends([dag |-> d, next |-> e.next], SortSpends(spends), e.addrs)
    IN IF GetsFailed(e.res) THEN Failed(d, f)
       ELSE IF ReachedGenesis(e.cur, spends)
       THEN Advance(d, [f EXCEPT !.verified = @ \cup {Hash(e.cur)},
                                 !.genesis = @ \cup {Hash(e.cur)}])
       ELSE IF ~VerifyAgainstInputsSpent(e.cur, spends) THEN Failed(acc.dag, f)
       ELSE Advance(acc.dag,
                    [f EXCEPT !.verified = @ \cup {Hash(e.cur)},
                              !.next = acc.next,
                              !.inputs = @ \cup {<<Hash(e.cur), s>> : s \in spends}])

\* JoinTx with the Genesis transaction verified as any other one
JoinTxVerifiesGenesis(d, e) ==
    LET spends == {e.res[i].spend : i \in 1..Len(e.res)}
        f == [e EXCEPT !.addrs = <<>>, !.res = <<>>]
    IN IF GetsFailed(e.res) THEN Failed(d, f)
       ELSE IF ~VerifyAgainstInputsSpent(e.cur, spends) THEN Failed(d, f)
       ELSE LET acc == AddSpends([dag |-> d, next |-> e.next],
                                 SortSpends(spends), e.addrs)
            IN Advance(acc.dag,
                       [f EXCEPT !.verified = @ \cup {Hash(e.cur)},
                                 !.next = acc.next,
                                 !.inputs = @ \cup {<<Hash(e.cur), s>> : s \in spends}])

\* JoinTx with the rejection of the parent transaction logged and its fetched
\* spends added all the same
JoinTxIgnoresRejection(d, e) ==
    LET spends == {e.res[i].spend : i \in 1..Len(e.res)}
        f == [e EXCEPT !.addrs = <<>>, !.res = <<>>]
    IN IF GetsFailed(e.res) THEN Failed(d, f)
       ELSE IF ReachedGenesis(e.cur, spends)
       THEN Advance(d, [f EXCEPT !.verified = @ \cup {Hash(e.cur)},
                                 !.genesis = @ \cup {Hash(e.cur)}])
       ELSE LET acc == AddSpends([dag |-> d, next |-> e.next],
                                 SortSpends(spends), e.addrs)
            IN Advance(acc.dag,
                       [f EXCEPT !.verified = @ \cup {Hash(e.cur)},
                                 !.next = acc.next,
                                 !.inputs = @ \cup {<<Hash(e.cur), s>> : s \in spends}])

\* lines 168-211: the joined GETs of one parent transaction
JoinTx(d, e) ==
    LET spends == {e.res[i].spend : i \in 1..Len(e.res)}
        f == [e EXCEPT !.addrs = <<>>, !.res = <<>>]
    IN IF GetsFailed(e.res) THEN Failed(d, f)
       ELSE IF ReachedGenesis(e.cur, spends)
       THEN Advance(d, [f EXCEPT !.verified = @ \cup {Hash(e.cur)},
                                 !.genesis = @ \cup {Hash(e.cur)}])
       ELSE IF ~VerifyAgainstInputsSpent(e.cur, spends) THEN Failed(d, f)
       ELSE LET acc == AddSpends([dag |-> d, next |-> e.next],
                                 SortSpends(spends), e.addrs)
            IN Advance(acc.dag,
                       [f EXCEPT !.verified = @ \cup {Hash(e.cur)},
                                 !.next = acc.next,
                                 !.inputs = @ \cup {<<Hash(e.cur), s>> : s \in spends}])

ExResult(e) == IF e.st = "ok" THEN "Ok" ELSE "CouldNotVerifyTransfer"

ExtendUntil(addr, s) ==
    /\ pc = "idle"
    /\ nOps < MaxOps
    /\ nOps' = nOps + 1
    /\ LET r == ExtendStarted(dag, addr, s)
       IN /\ dag' = r.dag
          /\ ex' = r.ex
          /\ pc' = IF r.ex.st = "ok" THEN "idle" ELSE "extend"
          /\ ret' = IF r.ex.st = "ok" THEN Ret("extend", addr, "Ok")
                    ELSE Ret("none", 0, "none")
    /\ tasks' = NoTasks
    /\ UNCHANGED <<store, nTransient>>
    /\ hv' = [hv EXCEPT !.dag0 = dag]
    /\ UNCHANGED avars

ExtendGetResp ==
    /\ pc = "extend"
    /\ ex.st = "fetch"
    /\ \E i \in 1..Len(ex.res) :
         /\ ex.res[i] = Pending
         /\ \E r \in Answers(ex.addrs[i]) :
              /\ ex' = [ex EXCEPT !.res[i] = r, !.errSeen = @ \/ r.kind # "Ok"]
              /\ nTransient' = CountTransient(r)
    /\ UNCHANGED <<store, dag, pc, tasks, ret, nOps, hv>>
    /\ UNCHANGED avars

ExtendJoin ==
    /\ pc = "extend"
    /\ ex.st = "fetch"
    /\ AllAnswered(ex.res)
    /\ LET r == JoinTx(dag, ex)
       IN /\ dag' = r.dag
          /\ ex' = r.ex
          /\ pc' = IF r.ex.st = "fetch" THEN "extend" ELSE "idle"
          /\ ret' = IF r.ex.st = "fetch" THEN ret
                    ELSE Ret("extend", ex.addr, ExResult(r.ex))
    /\ UNCHANGED <<store, tasks, nOps, nTransient>>
    /\ hv' = [hv EXCEPT !.verified = @ \cup ex'.verified, !.inputs = @ \cup ex'.inputs,
                      !.genesis = @ \cup ex'.genesis]
    /\ UNCHANGED avars

(***************************************************************************)
(* spend_dag_continue_from_utxos.                                          *)
(***************************************************************************)
\* SpawnAll with a forward build spawned for one UTXO of the DAG only
SpawnOne(utxos) ==
    [a \in Addrs |->
        IF a \in utxos /\ \A b \in utxos : a <= b THEN SpawnedTask ELSE IdleTask]

\* SpawnAll with the forward builds started on the DAG of the caller
SpawnShared(utxos) ==
    [a \in Addrs |-> IF a \in utxos THEN [SpawnedTask EXCEPT !.dag = dag] ELSE IdleTask]

\* SpawnAll with a forward build spawned for every address
SpawnEverywhere(utxos) == [a \in Addrs |-> SpawnedTask]

\* lines 235-241: one forward build is spawned per UTXO of the DAG
SpawnAll(utxos) == [a \in Addrs |-> IF a \in utxos THEN SpawnedTask ELSE IdleTask]

\* line 245: the failed task is out of the JoinSet; a task that panicked ran
\* no further and has no result of its own
Ended(t) == IF t.st = "panicked" THEN t ELSE [t EXCEPT !.st = "joined"]

\* line 245: a task that returned an error ends the loop, and dropping the
\* JoinSet aborts the tasks not joined yet
Abort(ts, failed) ==
    [a \in Addrs |->
        IF a = failed THEN Ended(ts[a])
        ELSE IF ts[a].st \in {"idle", "joined", "panicked"} THEN ts[a]
        ELSE [ts[a] EXCEPT !.st = "aborted"]]

\* Joined with a failed task reported and the loop carried on
JoinedSkipsFailures(d, ts, a) ==
    [dag |-> IF ts[a].result = "Ok" THEN Merge(d, ts[a].dag) ELSE d,
     tasks |-> [ts EXCEPT ![a].st = "joined"],
     res |-> "none"]

\* Joined with the sub-DAG merged only at the addresses the DAG does not hold
JoinedKeepsExisting(d, ts, a) ==
    IF ts[a].result = "Ok"
    THEN [dag |-> [b \in Addrs |-> IF d[b] = <<>> THEN ts[a].dag[b] ELSE d[b]],
          tasks |-> [ts EXCEPT ![a].st = "joined"], res |-> "none"]
    ELSE [dag |-> d, tasks |-> Abort(ts, a), res |-> "FailedToGetSpend"]

\* Joined with the sub-DAG taking the place of the DAG
JoinedReplacesDag(d, ts, a) ==
    IF ts[a].result = "Ok"
    THEN [dag |-> ts[a].dag, tasks |-> [ts EXCEPT ![a].st = "joined"], res |-> "none"]
    ELSE [dag |-> d, tasks |-> Abort(ts, a), res |-> "FailedToGetSpend"]

\* Joined with the JoinError of a panicked task logged and the loop carried on
JoinedIgnoresJoinError(d, ts, a) ==
    IF ts[a].result = "Ok"
    THEN [dag |-> Merge(d, ts[a].dag), tasks |-> [ts EXCEPT ![a].st = "joined"],
          res |-> "none"]
    ELSE IF ts[a].result = "JoinError"
    THEN [dag |-> d, tasks |-> [ts EXCEPT ![a].st = "joined"], res |-> "none"]
    ELSE [dag |-> d, tasks |-> Abort(ts, a), res |-> "FailedToGetSpend"]

\* lines 242-247: one ended task is joined; its JoinError is mapped to
\* FailedToGetSpend and the error of its build is passed on
Joined(d, ts, a) ==
    IF ts[a].result = "Ok"
    THEN [dag |-> Merge(d, ts[a].dag), tasks |-> [ts EXCEPT ![a].st = "joined"],
          res |-> "none"]
    ELSE IF ts[a].result = "JoinError"
    THEN [dag |-> d, tasks |-> Abort(ts, a), res |-> "FailedToGetSpend"]
    ELSE [dag |-> d, tasks |-> Abort(ts, a), res |-> ts[a].result]

ContinueFromUtxos ==
    /\ pc = "idle"
    /\ nOps < MaxOps
    /\ dag # EmptyDag
    /\ pc' = "continue"
    /\ nOps' = nOps + 1
    /\ tasks' = SpawnAll(GetUtxos(dag))
    /\ ex' = IdleEx
    /\ ret' = Ret("none", 0, "none")
    /\ UNCHANGED <<store, dag, nTransient>>
    /\ hv' = [hv EXCEPT !.built = TRUE, !.dag0 = dag]
    /\ UNCHANGED avars

\* the locals of a task that panicked are unwound with it
Panicked == [IdleTask EXCEPT !.st = "panicked", !.result = "JoinError"]

\* lines 240-243: a spawned forward build panics; join_next reports a JoinError
TaskPanic(a) ==
    /\ pc = "continue"
    /\ tasks[a].st \in {"root", "fetch", "verify"}
    /\ Cardinality({b \in Addrs : tasks[b].st = "panicked"}) < MaxPanic
    /\ tasks' = [tasks EXCEPT ![a] = Panicked]
    /\ UNCHANGED <<store, dag, pc, ex, ret, nOps, nTransient, hv>>
    /\ UNCHANGED avars

ContinueJoin(a) ==
    /\ pc = "continue"
    /\ tasks[a].st \in {"done", "panicked"}
    /\ LET r == Joined(dag, tasks, a)
       IN /\ dag' = r.dag
          /\ tasks' = r.tasks
          /\ pc' = IF r.res = "none" THEN "continue" ELSE "idle"
          /\ ret' = IF r.res = "none" THEN ret ELSE Ret("continue", a, r.res)
    /\ UNCHANGED <<store, ex, nOps, nTransient, hv>>
    /\ UNCHANGED avars

\* lines 248-249: no task is left in the JoinSet
ContinueReturn ==
    /\ pc = "continue"
    /\ \A a \in Addrs : tasks[a].st \in {"idle", "joined"}
    /\ pc' = "idle"
    /\ ret' = Ret("continue", 0, "Ok")
    /\ UNCHANGED <<store, dag, tasks, ex, nOps, nTransient, hv>>
    /\ UNCHANGED avars

(***************************************************************************)
(* NodeRestart (sn_node/tests/common/mod.rs): the nodes of a deployment    *)
(* inventory (droplets) or of the local node registry are restarted one    *)
(* per call of restart_next.                                               *)
(***************************************************************************)
\* the daemon and RPC endpoints of the node listed in place i
DaemonEndpoint(i) == 200 + i
RpcEndpoint(i) == 300 + i

\* an inventory (kind Droplet) or a registry (kind Local) of len nodes; the
\* node in place missing, if any, has no RPC endpoint in the inventory,
\* resp. no PeerId in the registry
Inventory(kind, len, missing) == [kind |-> kind, len |-> len, missing |-> missing]

Inventories ==
    UNION {{Inventory(k, n, m) : k \in {"Droplet", "Local"}, m \in 0..n} : n \in 0..MaxNodes}

NoOut ==
    [kind |-> "none", addr |-> 0, node |-> 0, attempted |-> FALSE, restarted |-> FALSE,
     loop_over |-> FALSE, progress_on_error |-> FALSE, before |-> 0, streak |-> 0,
     retry |-> FALSE]

\* restart that moves on to the next node whatever progress_on_error says
RestartAlwaysProgresses(idx, ok, progress_on_error) ==
    [idx |-> idx + 1, ok |-> ok]

\* lines 230-268: restart; ok is the outcome of restart_node
Restart(idx, ok, progress_on_error) ==
    IF ok THEN [idx |-> idx + 1, ok |-> TRUE]
    ELSE [idx |-> IF progress_on_error THEN idx + 1 ELSE idx, ok |-> FALSE]

\* lines 178-181 and 203-206: the check for the end of the list
StartOver(idx, len, loop_over) == IF loop_over /\ idx > len THEN 0 ELSE idx

\* lines 174-228: restart_next; the index it leaves and what it returns
RestartNext(inv, idx, loop_over, progress_on_error, ok) ==
    LET i == StartOver(idx, inv.len, loop_over)
        node == i + 1
        o == [NoOut EXCEPT !.loop_over = loop_over,
                           !.progress_on_error = progress_on_error, !.before = idx]
    IN IF i >= inv.len
       THEN [idx |-> i, out |-> [o EXCEPT !.kind = "None"]]
       ELSE IF inv.kind = "Local" /\ inv.missing = node
       THEN [idx |-> i, out |-> [o EXCEPT !.kind = "Err", !.node = node]]
       ELSE LET r == Restart(i, ok, progress_on_error)
                q == [o EXCEPT !.node = node, !.attempted = TRUE, !.restarted = r.ok]
            IN IF ~r.ok \/ (inv.kind = "Droplet" /\ inv.missing = node)
               THEN [idx |-> r.idx, out |-> [q EXCEPT !.kind = "Err"]]
               ELSE [idx |-> r.idx,
                     out |-> [q EXCEPT !.kind = "Some", !.addr = RpcEndpoint(node)]]

\* no NodeRestart is in use
NoNodeRestart ==
    /\ inventory_file = Inventory("Local", 0, 0)
    /\ next_to_restart_idx = 0
    /\ out = NoOut
    /\ hr = [calls |-> 0, streak |-> 0, failed |-> 0]

\* lines 148-164: NodeRestart::new
NodeRestartNew ==
    /\ inventory_file \in Inventories
    /\ next_to_restart_idx = 0
    /\ out = NoOut
    /\ hr = [calls |-> 0, streak |-> 0, failed |-> 0]

\* one call of restart_next; the history keeps the number of calls, the
\* successful restarts in a row since the index was 0, and the node whose
\* restart failed in this call without progress
RestartNextCall(loop_over, progress_on_error, ok) ==
    /\ hr.calls < MaxCalls
    /\ LET r == RestartNext(inventory_file, next_to_restart_idx, loop_over,
                            progress_on_error, ok)
       IN /\ next_to_restart_idx' = r.idx
          /\ out' = [r.out EXCEPT !.streak = hr.streak,
                                  !.retry = (r.out.node # 0 /\ r.out.node = hr.failed)]
          /\ hr' = [calls |-> hr.calls + 1,
                    streak |-> IF r.out.restarted THEN hr.streak + 1 ELSE 0,
                    failed |-> IF r.out.attempted /\ ~r.out.restarted /\ r.idx = next_to_restart_idx
                               THEN r.out.node ELSE 0]
    /\ UNCHANGED inventory_file
    /\ UNCHANGED <<dvars, mvars, wvars>>

\* lines 270-272: reset_index
ResetIndex ==
    /\ next_to_restart_idx # 0
    /\ next_to_restart_idx' = 0
    /\ hr' = [hr EXCEPT !.streak = 0, !.failed = 0]
    /\ UNCHANGED <<inventory_file, out>>
    /\ UNCHANGED <<dvars, mvars, wvars>>

(***************************************************************************)
(* sn_node_manager: start_daemon and stop_daemon.                          *)
(***************************************************************************)
\* pid: None
NoPid == 0

Pids == 1..MaxPid

Daemon(status, pid) == [status |-> status, pid |-> pid]

\* service.rs lines 128-132: a process of that pid exists
IsServiceProcessRunning(proc, pid) == pid # NoPid /\ pid = proc

DaemonResult(d, proc, res, called) ==
    [daemon |-> d, process |-> proc, res |-> res, called |-> called]

\* lines 86-114: start_daemon.  startOk and pidOk are the outcomes of
\* service_control.start and get_process_pid, newPid the pid of the process
\* the service manager starts when none runs
StartDaemon(d, proc, startOk, newPid, pidOk) ==
    IF d.status = "Running" /\ d.pid = NoPid
    THEN DaemonResult(d, proc, "panic", FALSE)
    ELSE IF d.status = "Running" /\ IsServiceProcessRunning(proc, d.pid)
    THEN DaemonResult(d, proc, "Ok", FALSE)
    ELSE IF ~startOk THEN DaemonResult(d, proc, "Err", TRUE)
    ELSE LET p == IF proc = NoPid THEN newPid ELSE proc
         IN IF ~pidOk THEN DaemonResult(d, p, "Err", TRUE)
            ELSE DaemonResult(Daemon("Running", p), p, "Ok", TRUE)

\* StopDaemon that marks the daemon Stopped and keeps its pid
StopDaemonKeepsPid(d, proc, stopOk) ==
    IF d.status # "Running" THEN DaemonResult(d, proc, "Ok", FALSE)
    ELSE IF d.pid = NoPid THEN DaemonResult(d, proc, "Err", FALSE)
    ELSE IF IsServiceProcessRunning(proc, d.pid)
    THEN IF ~stopOk THEN DaemonResult(d, proc, "Err", TRUE)
         ELSE DaemonResult(Daemon("Stopped", d.pid), NoPid, "Ok", TRUE)
    ELSE DaemonResult(Daemon("Stopped", d.pid), proc, "Ok", FALSE)

\* lines 116-153: stop_daemon.  stopOk is the outcome of service_control.stop
StopDaemon(d, proc, stopOk) ==
    IF d.status # "Running" THEN DaemonResult(d, proc, "Ok", FALSE)
    ELSE IF d.pid = NoPid THEN DaemonResult(d, proc, "Err", FALSE)
    ELSE IF IsServiceProcessRunning(proc, d.pid)
    THEN IF ~stopOk THEN DaemonResult(d, proc, "Err", TRUE)
         ELSE DaemonResult(Daemon("Stopped", NoPid), NoPid, "Ok", TRUE)
    ELSE DaemonResult(Daemon("Stopped", NoPid), proc, "Ok", FALSE)

NoDout ==
    [op |-> "none", res |-> "none", called |-> FALSE,
     before |-> Daemon("Added", NoPid), live |-> FALSE]

\* no daemon is in use
NoDaemon ==
    /\ daemon = Daemon("Added", NoPid)
    /\ process = NoPid
    /\ dout = NoDout
    /\ hd = 0

\* lines 64-72: the daemon as add_daemon records it, or a daemon of the
\* registry that was removed; no service process runs
DaemonAdded ==
    /\ daemon \in {Daemon("Added", NoPid), Daemon("Removed", NoPid)}
    /\ process = NoPid
    /\ dout = [NoDout EXCEPT !.before = daemon]
    /\ hd = 0

DaemonCalled(op, r) ==
    /\ daemon' = r.daemon
    /\ process' = r.process
    /\ dout' = [op |-> op, res |-> r.res, called |-> r.called, before |-> daemon,
                live |-> IsServiceProcessRunning(process, daemon.pid)]
    /\ hd' = hd + 1

StartDaemonCall(startOk, newPid, pidOk) ==
    /\ hd < MaxDaemonCalls
    /\ DaemonCalled("start", StartDaemon(daemon, process, startOk, newPid, pidOk))
    /\ UNCHANGED <<dvars, rvars, wvars>>

StopDaemonCall(stopOk) ==
    /\ hd < MaxDaemonCalls
    /\ DaemonCalled("stop", StopDaemon(daemon, process, stopOk))
    /\ UNCHANGED <<dvars, rvars, wvars>>

\* the service process ends on its own
ProcessExits ==
    /\ process # NoPid
    /\ process' = NoPid
    /\ UNCHANGED <<daemon, dout, hd>>
    /\ UNCHANGED <<dvars, rvars, wvars>>

(***************************************************************************)
(* sn_client: the wallet client.                                           *)
(***************************************************************************)
\* the spend requests a wallet makes, and a spend of the key of S2 made elsewhere
WalletRequests == {S2, S3}

WalletSpends == WalletRequests \cup {S2b}

\* the LocalWallet, as far as the wallet client reads and writes it
LocalWallet(unconfirmed) == [unconfirmed_spend_requests |-> unconfirmed]

\* network_store_spend: the spends the network accepted are in the store
PutSpends(st, stored) ==
    [a \in Addrs |-> st[a] \cup {s \in stored : AddressOf(s.unique_pubkey) = a}]

\* lines 286-288: the results of the joined stores, up to the first error
RECURSIVE SendResult(_, _)
SendResult(reqs, stored) ==
    IF reqs = <<>> THEN "Ok"
    ELSE IF Head(reqs) \notin stored THEN "CouldNotSendMoney"
    ELSE SendResult(Tail(reqs), stored)

\* lines 271-291: Client::send, of which the network stored the requests in
\* stored
ClientSend(spend_requests, stored) == SendResult(SortSpends(spend_requests), stored)

\* what an operation of the wallet client leaves and returns: attempted and
\* cleared tell whether Client::send and clear_unconfirmed_spend_requests
\* were called
WalletResult(w, st, res, attempted, cleared, requests, stored) ==
    [wallet |-> w, store |-> st, res |-> res, attempted |-> attempted,
     cleared |-> cleared, requests |-> requests, stored |-> stored]

\* SendCashNote that clears the unconfirmed spend requests whatever the
\* network send returned
SendCashNoteClearsAlways(w, st, created, notes, localOk, stored) ==
    LET u == w.unconfirmed_spend_requests \cup created
    IN IF ~localOk
       THEN WalletResult(w, st, "LocalSendFailed", FALSE, FALSE, {}, {})
       ELSE IF ClientSend(u, stored) # "Ok"
       THEN WalletResult(LocalWallet({}), PutSpends(st, stored), "CouldNotSendMoney",
                         TRUE, TRUE, u, stored)
       ELSE WalletResult(LocalWallet({}), PutSpends(st, stored),
                         IF notes = 1 THEN "Ok" ELSE "CouldNotSendMoney",
                         TRUE, TRUE, u, stored)

\* SendCashNote that leaves the spend requests unconfirmed after the network
\* stored them
SendCashNoteKeepsUnconfirmed(w, st, created, notes, localOk, stored) ==
    LET u == w.unconfirmed_spend_requests \cup created
    IN IF ~localOk
       THEN WalletResult(w, st, "LocalSendFailed", FALSE, FALSE, {}, {})
       ELSE IF ClientSend(u, stored) # "Ok"
       THEN WalletResult(LocalWallet(u), PutSpends(st, stored), "CouldNotSendMoney",
                         TRUE, FALSE, u, stored)
       ELSE WalletResult(LocalWallet(u), PutSpends(st, stored),
                         IF notes = 1 THEN "Ok" ELSE "CouldNotSendMoney",
                         TRUE, FALSE, u, stored)

\* lines 72-105: send_cash_note.  local_send makes the spend requests created
\* and as many cash notes as notes, or fails
SendCashNote(w, st, created, notes, localOk, stored) ==
    LET u == w.unconfirmed_spend_requests \cup created
    IN IF ~localOk
       THEN WalletResult(w, st, "LocalSendFailed", FALSE, FALSE, {}, {})
       ELSE IF ClientSend(u, stored) # "Ok"
       THEN WalletResult(LocalWallet(u), PutSpends(st, stored), "CouldNotSendMoney",
                         TRUE, FALSE, u, stored)
       ELSE WalletResult(LocalWallet({}), PutSpends(st, stored),
                         IF notes = 1 THEN "Ok" ELSE "CouldNotSendMoney",
                         TRUE, TRUE, u, stored)

\* lines 204-212: the costs added up by checked_add; -1 when the sum
\* exceeds the largest amount
RECURSIVE TotalCost(_, _)
TotalCost(costs, total) ==
    IF costs = <<>> THEN total
    ELSE IF total + Head(costs) > MaxNano THEN -1
    ELSE TotalCost(Tail(costs), total + Head(costs))

\* lines 194-238: pay_for_records
PayForRecords(w, st, costs, created, localOk, stored) ==
    LET u == w.unconfirmed_spend_requests \cup created
    IN IF TotalCost(costs, 0) < 0
       THEN WalletResult(w, st, "TotalPriceTooHigh", FALSE, FALSE, {}, {})
       ELSE IF ~localOk
       THEN WalletResult(w, st, "LocalSendFailed", FALSE, FALSE, {}, {})
       ELSE IF ClientSend(u, stored) # "Ok"
       THEN WalletResult(LocalWallet(u), PutSpends(st, stored), "CouldNotSendMoney",
                         TRUE, FALSE, u, stored)
       ELSE WalletResult(LocalWallet({}), PutSpends(st, stored), "Ok",
                         TRUE, TRUE, u, stored)

\* lines 242-255: resend_pending_txs
ResendPendingTxs(w, st, stored) ==
    LET u == w.unconfirmed_spend_requests
    IN IF ClientSend(u, stored) = "Ok"
       THEN WalletResult(LocalWallet({}), PutSpends(st, stored), "Ok", TRUE, TRUE, u, stored)
       ELSE WalletResult(w, PutSpends(st, stored), "Ok", TRUE, FALSE, u, stored)

\* lines 375-390: the resends of send; the network stores the requests of
\* the resend numbered firstOk and of none before it
RECURSIVE ResendLoop(_, _, _, _)
ResendLoop(w, st, attempts, firstOk) ==
    IF w.unconfirmed_spend_requests = {}
    THEN [wallet |-> w, store |-> st, did_error |-> FALSE, resends |-> attempts]
    ELSE LET r == ResendPendingTxs(w, st, IF attempts + 1 = firstOk
                                          THEN w.unconfirmed_spend_requests ELSE {})
         IN IF attempts > RetryLimit
            THEN [wallet |-> r.wallet, store |-> r.store, did_error |-> TRUE,
                  resends |-> attempts + 1]
            ELSE ResendLoop(r.wallet, r.store, attempts + 1, firstOk)

SendResultOf(w, st, res, resends, did_error, stored_wallet, stored_note) ==
    [wallet |-> w, store |-> st, res |-> res, resends |-> resends,
     did_error |-> did_error, stored_wallet |-> stored_wallet,
     stored_note |-> stored_note]

\* lines 355-402: send.  storeOk and noteOk are the outcomes of wallet.store
\* and wallet.store_cash_note
WalletSend(w, st, amount, verify_store, created, localOk, stored, firstOk, storeOk, noteOk) ==
    IF amount = 0 THEN SendResultOf(w, st, "panic", 0, FALSE, FALSE, FALSE)
    ELSE LET c == SendCashNote(w, st, created, 1, localOk, stored)
         IN IF c.res # "Ok"
            THEN SendResultOf(c.wallet, c.store, c.res, 0, FALSE, FALSE, FALSE)
            ELSE LET l == IF verify_store THEN ResendLoop(c.wallet, c.store, 0, firstOk)
                          ELSE [wallet |-> c.wallet, store |-> c.store,
                                did_error |-> FALSE, resends |-> 0]
                 IN IF ~storeOk
                    THEN SendResultOf(l.wallet, l.store, "StoreFailed", l.resends,
                                      l.did_error, FALSE, FALSE)
                    ELSE IF ~noteOk
                    THEN SendResultOf(l.wallet, l.store, "StoreFailed", l.resends,
                                      l.did_error, TRUE, FALSE)
                    ELSE SendResultOf(l.wallet, l.store,
                                      IF l.did_error THEN "UnconfirmedTxAfterRetries"
                                      ELSE "Ok",
                                      l.resends, l.did_error, TRUE, TRUE)

\* lines 336-340: the spends received, up to the first GET that failed
RECURSIVE ReceivedSpends(_, _, _)
ReceivedSpends(spends, answer, received) ==
    IF spends = <<>> THEN [err |-> FALSE, spends |-> received]
    ELSE IF answer[Head(spends)].kind # "Ok" THEN [err |-> TRUE, spends |-> received]
    ELSE ReceivedSpends(Tail(spends), answer, received \cup {answer[Head(spends)].spend})

\* VerifyCashNote that takes a spend that could not be fetched for a spend
\* the network does not know, and goes on
RECURSIVE ReceivedSpendsSkipsErrors(_, _, _)
ReceivedSpendsSkipsErrors(spends, answer, received) ==
    IF spends = <<>> THEN [err |-> FALSE, spends |-> received]
    ELSE ReceivedSpendsSkipsErrors(Tail(spends), answer,
            IF answer[Head(spends)].kind # "Ok" THEN received
            ELSE received \cup {answer[Head(spends)].spend})

VerifyCashNoteSkipsErrors(signed_spends, answer) ==
    LET r == ReceivedSpendsSkipsErrors(SortSpends(signed_spends), answer, {})
    IN IF r.spends \subseteq signed_spends THEN "Ok" ELSE "CouldNotVerifyTransfer"

\* lines 326-350: Client::verify; answer[s] is what the GET for the spend s
\* of the cash note returned
VerifyCashNote(signed_spends, answer) ==
    LET r == ReceivedSpends(SortSpends(signed_spends), answer, {})
    IN IF r.err THEN "CouldNotVerifyTransfer"
       ELSE IF r.spends = signed_spends THEN "Ok"
       ELSE "CouldNotVerifyTransfer"

NoWout ==
    [op |-> "none", res |-> "none", attempted |-> FALSE, cleared |-> FALSE,
     requests |-> {}, stored |-> {}, before |-> {}, verify_store |-> FALSE,
     resends |-> 0, did_error |-> FALSE, stored_wallet |-> FALSE,
     stored_note |-> FALSE, signed_spends |-> {}, answers |-> {}]

\* no wallet is in use
NoWallet ==
    /\ wallet = LocalWallet({})
    /\ wout = NoWout
    /\ hw = 0

\* a wallet loaded, with or without spend requests left unconfirmed
WalletLoaded ==
    /\ wallet \in {LocalWallet({}), LocalWallet({S3})}
    /\ wout = NoWout
    /\ hw = 0

WalletCalled(op, r) ==
    /\ wallet' = r.wallet
    /\ store' = r.store
    /\ wout' = [NoWout EXCEPT !.op = op, !.res = r.res, !.attempted = r.attempted,
                              !.cleared = r.cleared, !.requests = r.requests,
                              !.stored = r.stored,
                              !.before = wallet.unconfirmed_spend_requests]
    /\ hw' = hw + 1
    /\ UNCHANGED <<dag, pc, tasks, ex, ret, nOps, nTransient, hv>>
    /\ UNCHANGED <<rvars, mvars>>

\* the spend requests created are new ones, and the network stores requests
\* that were sent only
Sendable(created, localOk, stored) ==
    /\ created \cap wallet.unconfirmed_spend_requests = {}
    /\ stored \subseteq (IF localOk THEN wallet.unconfirmed_spend_requests \cup created ELSE {})

SendCashNoteCall(created, notes, localOk, stored) ==
    /\ hw < MaxWalletCalls
    /\ Sendable(created, localOk, stored)
    /\ WalletCalled("send_cash_note",
                    SendCashNote(wallet, store, created, notes, localOk, stored))

PayForRecordsCall(costs, created, localOk, stored) ==
    /\ hw < MaxWalletCalls
    /\ Sendable(created, localOk /\ TotalCost(costs, 0) >= 0, stored)
    /\ WalletCalled("pay_for_records",
                    PayForRecords(wallet, store, costs, created, localOk, stored))

ResendPendingTxsCall(stored) ==
    /\ hw < MaxWalletCalls
    /\ stored \subseteq wallet.unconfirmed_spend_requests
    /\ WalletCalled("resend_pending_txs", ResendPendingTxs(wallet, store, stored))

\* send returns before the resends and the stores: what they would do is
\* left unsaid
ReturnsEarly(amount, created, localOk, stored) ==
    \/ amount = 0
    \/ ~localOk
    \/ stored # wallet.unconfirmed_spend_requests \cup created

WalletSendCall(amount, verify_store, created, localOk, stored, firstOk, storeOk, noteOk) ==
    /\ hw < MaxWalletCalls
    /\ Sendable(created, localOk /\ amount # 0, stored)
    /\ ReturnsEarly(amount, created, localOk, stored) => (firstOk = 0 /\ storeOk /\ noteOk)
    /\ ~storeOk => noteOk
    /\ LET r == WalletSend(wallet, store, amount, verify_store, created, localOk,
                           stored, firstOk, storeOk, noteOk)
       IN /\ wallet' = r.wallet
          /\ store' = r.store
          /\ wout' = [NoWout EXCEPT !.op = "send", !.res = r.res,
                                    !.verify_store = verify_store,
                                    !.resends = r.resends, !.did_error = r.did_error,
                                    !.stored_wallet = r.stored_wallet,
                                    !.stored_note = r.stored_note,
                                    !.before = wallet.unconfirmed_spend_requests]
    /\ hw' = hw + 1
    /\ UNCHANGED <<dag, pc, tasks, ex, ret, nOps, nTransient, hv>>
    /\ UNCHANGED <<rvars, mvars>>

VerifyCall(signed_spends) ==
    /\ hw < MaxWalletCalls
    /\ \E answer \in [signed_spends -> UNION {Answers(a) : a \in Addrs}] :
         /\ \A s \in signed_spends : answer[s] \in Answers(AddressOf(s.unique_pubkey))
         /\ wout' = [NoWout EXCEPT !.op = "verify",
                                   !.res = VerifyCashNote(signed_spends, answer),
                                   !.signed_spends = signed_spends,
                                   !.answers = {<<s, answer[s]>> : s \in signed_spends},
                                   !.before = wallet.unconfirmed_spend_requests]
         /\ nTransient' = IF \E s \in signed_spends : answer[s].kind = "Transient"
                          THEN nTransient + 1 ELSE nTransient
    /\ hw' = hw + 1
    /\ UNCHANGED <<store, dag, pc, tasks, ex, ret, nOps, hv, wallet>>
    /\ UNCHANGED <<rvars, mvars>>

(***************************************************************************)
(* The session.                                                            *)
(***************************************************************************)
Init ==
    /\ store \in Stores
    /\ dag = EmptyDag
    /\ pc = "idle"
    /\ tasks = NoTasks
    /\ ex = IdleEx
    /\ ret = Ret("none", 0, "none")
    /\ nOps = 0
    /\ nTransient = 0
    /\ hv = [built |-> FALSE, dag0 |-> EmptyDag, verified |-> {}, inputs |-> {},
             genesis |-> {}]
    /\ NoNodeRestart
    /\ NoDaemon
    /\ NoWallet

Next ==
    \/ \E a \in Addrs : BuildFrom(a)
    \/ \E a \in Addrs : TaskRootResp(a)
    \/ \E a \in Addrs : TaskGetResp(a)
    \/ \E a \in Addrs : TaskCollate(a)
    \/ \E a \in Addrs : TaskVerify(a)
    \/ \E a \in Addrs : BuildReturn(a)
    \/ \E s \in Spends : ExtendUntil(AddressOf(s.unique_pubkey), s)
    \/ ExtendGetResp
    \/ ExtendJoin
    \/ ContinueFromUtxos
    \/ \E a \in Addrs : ContinueJoin(a)
    \/ ContinueReturn

Spec == Init /\ [][Next]_vars

\* a session of forward builds alone, in which every GET is answered and the
\* driving task is scheduled
TaskStep(a) == TaskRootResp(a) \/ TaskGetResp(a) \/ TaskCollate(a) \/ TaskVerify(a)

BuildNext ==
    \/ \E a \in Addrs : BuildFrom(a)
    \/ \E a \in Addrs : TaskRootResp(a)
    \/ \E a \in Addrs : TaskGetResp(a)
    \/ \E a \in Addrs : TaskCollate(a)
    \/ \E a \in Addrs : TaskVerify(a)
    \/ \E a \in Addrs : BuildReturn(a)

FairBuildSpec ==
    Init /\ [][BuildNext]_vars /\ WF_vars(\E a \in Addrs : TaskStep(a))

\* a session of forward builds against a store that may also serve a second
\* spend of key 4, so that one generation can get two spends of one address
S4b == MkSpend(4, T2b, T3)

WideSpends == Spends \cup {S4b}

WideStores ==
    {[a \in Addrs |-> {s \in P : AddressOf(s.unique_pubkey) = a}] : P \in SUBSET WideSpends}

WideInit ==
    /\ store \in WideStores
    /\ dag = EmptyDag
    /\ pc = "idle"
    /\ tasks = NoTasks
    /\ ex = IdleEx
    /\ ret = Ret("none", 0, "none")
    /\ nOps = 0
    /\ nTransient = 0
    /\ hv = [built |-> FALSE, dag0 |-> EmptyDag, verified |-> {}, inputs |-> {},
             genesis |-> {}]
    /\ NoNodeRestart
    /\ NoDaemon
    /\ NoWallet

WideBuildSpec == WideInit /\ [][BuildNext]_vars

\* a session of forward builds and continuations, in which a spawned forward
\* build may panic
ContinueNext ==
    \/ BuildNext
    \/ ContinueFromUtxos
    \/ \E a \in Addrs : TaskPanic(a)
    \/ \E a \in Addrs : ContinueJoin(a)
    \/ ContinueReturn

ContinueSpec == Init /\ [][ContinueNext]_vars

\* the same session against a store that may serve two spends of key 4
WideContinueSpec == WideInit /\ [][ContinueNext]_vars

\* a session of forward builds and ascents on the ledger in which T1 is the
\* parent of a spend of T4 and of a spend of T2b, itself an ancestor of T4
S3d == MkSpend(3, T1, T4)
S4d == MkSpend(4, T2b, T4)
S6d == MkSpend(6, T4, T6)

DiamondSpends == {SG, S2b, S3d, S4d, S6d}

DiamondStores ==
    {[a \in Addrs |-> {s \in P : AddressOf(s.unique_pubkey) = a}] : P \in SUBSET DiamondSpends}

DiamondInit ==
    /\ store \in DiamondStores
    /\ dag = EmptyDag
    /\ pc = "idle"
    /\ tasks = NoTasks
    /\ ex = IdleEx
    /\ ret = Ret("none", 0, "none")
    /\ nOps = 0
    /\ nTransient = 0
    /\ hv = [built |-> FALSE, dag0 |-> EmptyDag, verified |-> {}, inputs |-> {},
             genesis |-> {}]
    /\ NoNodeRestart
    /\ NoDaemon
    /\ NoWallet

DiamondNext ==
    \/ BuildNext
    \/ \E s \in DiamondSpends : ExtendUntil(AddressOf(s.unique_pubkey), s)
    \/ ExtendGetResp
    \/ ExtendJoin

DiamondSpec == DiamondInit /\ [][DiamondNext]_vars

\* a NodeRestart in the hands of a test that calls restart_next and
\* reset_index; no SpendDAG operation runs
RestartInit ==
    /\ store = StoreOf({})
    /\ dag = EmptyDag
    /\ pc = "idle"
    /\ tasks = NoTasks
    /\ ex = IdleEx
    /\ ret = Ret("none", 0, "none")
    /\ nOps = 0
    /\ nTransient = 0
    /\ hv = [built |-> FALSE, dag0 |-> EmptyDag, verified |-> {}, inputs |-> {},
             genesis |-> {}]
    /\ NodeRestartNew
    /\ NoDaemon
    /\ NoWallet

RestartSpecNext ==
    \/ \E loop_over, progress_on_error, ok \in BOOLEAN :
          RestartNextCall(loop_over, progress_on_error, ok)
    \/ ResetIndex

RestartSpec == RestartInit /\ [][RestartSpecNext]_vars

\* a daemon in the hands of the node manager, which starts and stops it
DaemonInit ==
    /\ store = StoreOf({})
    /\ dag = EmptyDag
    /\ pc = "idle"
    /\ tasks = NoTasks
    /\ ex = IdleEx
    /\ ret = Ret("none", 0, "none")
    /\ nOps = 0
    /\ nTransient = 0
    /\ hv = [built |-> FALSE, dag0 |-> EmptyDag, verified |-> {}, inputs |-> {},
             genesis |-> {}]
    /\ NoNodeRestart
    /\ DaemonAdded
    /\ NoWallet

DaemonNext ==
    \/ \E startOk, pidOk \in BOOLEAN : \E newPid \in Pids :
          StartDaemonCall(startOk, newPid, pidOk)
    \/ \E stopOk \in BOOLEAN : StopDaemonCall(stopOk)
    \/ ProcessExits

DaemonSpec == DaemonInit /\ [][DaemonNext]_vars

\* a wallet client at work on a network that holds no spend, or the spend
\* S2b of the key of S2
WalletInit ==
    /\ store \in {StoreOf({}), StoreOf({S2b})}
    /\ dag = EmptyDag
    /\ pc = "idle"
    /\ tasks = NoTasks
    /\ ex = IdleEx
    /\ ret = Ret("none", 0, "none")
    /\ nOps = 0
    /\ nTransient = 0
    /\ hv = [built |-> FALSE, dag0 |-> EmptyDag, verified |-> {}, inputs |-> {},
             genesis |-> {}]
    /\ NoNodeRestart
    /\ NoDaemon
    /\ WalletLoaded

Created == SUBSET WalletRequests \ {{}}

WalletNext ==
    \/ \E created \in Created, notes \in 0..2, localOk \in BOOLEAN,
          stored \in SUBSET WalletRequests :
          SendCashNoteCall(created, notes, localOk, stored)
    \/ \E costs \in {<<1>>, <<1, 1>>, <<1, MaxNano>>}, created \in Created,
          localOk \in BOOLEAN, stored \in SUBSET WalletRequests :
          PayForRecordsCall(costs, created, localOk, stored)
    \/ \E stored \in SUBSET WalletRequests : ResendPendingTxsCall(stored)
    \/ \E amount \in 0..1, verify_store, localOk, storeOk, noteOk \in BOOLEAN,
          created \in Created, stored \in SUBSET WalletRequests,
          firstOk \in {0, 1, RetryLimit + 2} :
          WalletSendCall(amount, verify_store, created, localOk, stored, firstOk,
                         storeOk, noteOk)
    \/ \E signed_spends \in SUBSET WalletSpends : VerifyCall(signed_spends)

WalletSpec == WalletInit /\ [][WalletNext]_vars

(***************************************************************************)
(* Properties of spend_dag_extend_until.                                   *)
(***************************************************************************)
ExtendReturned == pc = "idle" /\ ret.op = "extend"

\* C1: once a GET of an input address of a parent transaction has answered
\* Missing or Transient, the call in progress does not go on to another
\* transaction and extend_until returns CouldNotVerifyTransfer, never Ok.
C1_FailedGetFailsExtend ==
    ex.errSeen =>
        \/ pc = "extend" /\ ex.st = "fetch" /\ GetsFailed(ex.res)
        \/ /\ ex.st = "failed"
           /\ ret = Ret("extend", ex.addr, "CouldNotVerifyTransfer")

\* a GET failed below the first parent transaction and the call failed
C1_Witness ==
    /\ ExtendReturned
    /\ ex.errSeen
    /\ ex.depth >= 1
    /\ ret.res = "CouldNotVerifyTransfer"

\* the spends reached from the set A by one verified parent transaction: a
\* spend whose parent was the Genesis short-circuit, or whose parent was
\* verified against fetched input spends one of which is in A
AnchorStep(A, verified, inputs, genesis) ==
    A \cup {s \in Spends :
              \/ Hash(s.parent_tx) \in genesis
              \/ /\ Hash(s.parent_tx) \in verified
                 /\ \E p \in inputs : p[1] = Hash(s.parent_tx) /\ p[2] \in A}

RECURSIVE Anchored(_, _, _, _)
Anchored(A, verified, inputs, genesis) ==
    LET B == AnchorStep(A, verified, inputs, genesis)
    IN IF B = A THEN A ELSE Anchored(B, verified, inputs, genesis)

\* C2: a successful extend_until has a path of parent transactions verified
\* in the call from new_spend to a spend of the DAG before the call or to
\* Genesis.
C2_SuccessImpliesVerifiedPath ==
    (ExtendReturned /\ ret.res = "Ok") =>
        ex.spend \in Anchored(DagSpends(ex.dag0), ex.verified, ex.inputs, ex.genesis)

\* C3: in a session that only calls extend_until on a DAG that began empty,
\* every spend of the DAG has a chain of verified parent transactions back
\* to Genesis.
C3_OnlyValidDataInDag ==
    (pc = "idle" /\ ~hv.built) =>
        DagSpends(dag) \subseteq Anchored({}, hv.verified, hv.inputs, hv.genesis)

\* what this call of extend_until added to the DAG
AddedByExtend == {<<a, s>> \in Addrs \X Spends : Contains(dag, a, s) /\ ~Contains(ex.dag0, a, s)}

\* the failing parent transaction and those that would have been processed
\* after it: the rest of this depth and the next depth
PastFailure ==
    {ex.failedTx} \cup SeqRange(ex.queue) \cup ToVerify(ex.next, ex.verified)

\* C4 as stated: when extend_until fails, the DAG may contain new_spend, but
\* no input spend of the failing parent transaction or of a transaction that
\* would have been processed after it has been added to the DAG by this call.
C4_FailedInputsNotAdded ==
    ex.st = "failed" =>
        \A p \in AddedByExtend \ {<<ex.addr, ex.spend>>} :
            \A tx \in PastFailure : p[2].unique_pubkey \notin SeqRange(tx.inputs)

\* C4 as amended: when extend_until fails, nothing is inserted past the
\* failure point: the DAG holds, beyond what it held before the call, only
\* new_spend and input spends of transactions verified before the failure
\* point, and the failing transaction is not one of them.
C4_NothingInsertedPastFailure ==
    ex.st = "failed" =>
        /\ Hash(ex.failedTx) \notin ex.verified
        /\ \A p \in AddedByExtend :
              \/ p = <<ex.addr, ex.spend>>
              \/ \E q \in ex.inputs : q[2] = p[2] /\ q[1] \in ex.verified
                                      /\ q[1] # Hash(ex.failedTx)

\* the call failed below the first parent transaction, after it had added
\* ancestors to the DAG
C4_Witness ==
    /\ ExtendReturned
    /\ ex.st = "failed"
    /\ ex.depth >= 1
    /\ Cardinality(AddedByExtend) >= 2

(***************************************************************************)
(* Properties of spend_dag_build_from.                                     *)
(***************************************************************************)
Completed(t) == t.st \in {"done", "joined"}

BuildReturned == pc = "idle" /\ ret.op = "build"

\* C5: a Transient answer to a GET other than the root's does not fail the
\* build: the build fails only on the root GET, every spend a generation got
\* is in the DAG, the spent transaction of every such spend was followed, and
\* build_from returns Ok with that DAG.
C5_TransientBranchAbandoned ==
    /\ \A a \in Addrs :
         LET t == tasks[a]
         IN /\ t.result = "FailedToGetSpend" => (t.rootKind = "Transient" /\ t.gen = 0)
            /\ \A p \in t.got : Contains(t.dag, p[1], p[2])
            /\ (Completed(t) /\ t.rootKind = "Ok") =>
                  /\ t.result = "Ok"
                  /\ \A p \in t.got : Hash(p[2].spent_tx) \in t.known
    /\ (BuildReturned /\ tasks[ret.at].rootKind = "Ok") =>
          (ret.res = "Ok" /\ dag = tasks[ret.at].dag)

\* the first output of T1 got a Transient answer, the second one its spend,
\* and the generation after it reached the spend of key 4
C5_Witness ==
    LET t == tasks[AddressOf(GenesisId)]
    IN /\ BuildReturned
       /\ ret.res = "Ok"
       /\ t.lost = {AddressOf(3)}
       /\ <<AddressOf(2), S2>> \in t.got
       /\ Contains(dag, AddressOf(4), S4)

\* C6: build_from of an address the store reports Missing returns Ok with an
\* empty DAG and issues no GET but the root's.
C6_MissingRootIsEmptyDag ==
    /\ \A a \in Addrs :
         tasks[a].rootKind = "Missing" =>
            /\ tasks[a].st \in {"done", "joined", "aborted"}
            /\ tasks[a].result = "Ok"
            /\ tasks[a].dag = EmptyDag
            /\ tasks[a].nGets = 1
    /\ (BuildReturned /\ tasks[ret.at].rootKind = "Missing") =>
          (ret.res = "Ok" /\ dag = EmptyDag)

C6_Witness ==
    /\ BuildReturned
    /\ tasks[ret.at].rootKind = "Missing"
    /\ ret.res = "Ok"

\* C7: build_from of an address whose GET fails with a Transient error fails
\* with FailedToGetSpend, issues no other GET and returns no DAG.
C7_TransientRootFails ==
    /\ \A a \in Addrs :
         tasks[a].rootKind = "Transient" =>
            /\ tasks[a].st \in {"done", "joined", "aborted"}
            /\ tasks[a].result = "FailedToGetSpend"
            /\ tasks[a].dag = EmptyDag
            /\ tasks[a].nGets = 1
    /\ (BuildReturned /\ tasks[ret.at].rootKind = "Transient") =>
          (ret.res = "FailedToGetSpend" /\ dag = hv.dag0)

C7_Witness ==
    /\ BuildReturned
    /\ tasks[ret.at].rootKind = "Transient"
    /\ ret.res = "FailedToGetSpend"
    /\ store[ret.at] # {}

\* a store that holds at most one spend per address
WellFormed == \A a \in Addrs : Cardinality(store[a]) <= 1

\* the addresses reached from R by one spent transaction
ReachStep(R) ==
    R \cup {b \in Addrs :
              /\ store[b] # {}
              /\ \E a \in R : \E s \in store[a] :
                    \E i \in 1..Len(s.spent_tx.outputs) :
                        b = AddressOf(s.spent_tx.outputs[i])}

RECURSIVE ReachFrom(_)
ReachFrom(R) == IF ReachStep(R) = R THEN R ELSE ReachFrom(ReachStep(R))

Reachable(root) == ReachFrom(IF store[root] = {} THEN {} ELSE {root})

ReachableDag(root) ==
    [a \in Addrs |->
        IF a \in Reachable(root) THEN <<CHOOSE s \in store[a] : TRUE>> ELSE <<>>]

\* C8: against a well-formed store that never answers Transient, the DAG
\* build_from(root) returns holds exactly the spends reachable from root by
\* descending the output keys of the spent transactions.
C8_BuildIsReachableSet ==
    /\ \A a \in Addrs :
         (Completed(tasks[a]) /\ WellFormed /\ tasks[a].result = "Ok" /\ tasks[a].lost = {})
            => tasks[a].dag = ReachableDag(a)
    /\ (BuildReturned /\ WellFormed /\ ret.res = "Ok" /\ tasks[ret.at].lost = {})
            => dag = ReachableDag(ret.at)

\* the build from the Genesis address of the store that holds the whole
\* ledger without its double spend: four spends, two of them with the same
\* spent transaction
C8_Witness ==
    /\ BuildReturned
    /\ ret.at = AddressOf(GenesisId)
    /\ WellFormed
    /\ tasks[ret.at].lost = {}
    /\ DagSpends(dag) = {SG, S2, S3, S4}

\* C9: build_from terminates against every store of the ledger, with two
\* spends of one spent transaction and with a cycle of spent transactions,
\* when every GET is answered.
C9_BuildTerminates ==
    \A a \in Addrs : (tasks[a].st = "root") ~> (tasks[a].st = "done")

\* a build that met the spend of key 5 again through its own spent
\* transaction, and ended
C9_Witness ==
    \E a \in Addrs :
        /\ tasks[a].st = "done"
        /\ <<AddressOf(5), S5>> \in tasks[a].got
        /\ Hash(TC) \in tasks[a].known

(***************************************************************************)
(* Properties of spend_dag_continue_from_utxos.                            *)
(***************************************************************************)
ContinueReturned == pc = "idle" /\ ret.op = "continue"

\* the sub-DAG of task a is in the session's DAG
SubDagMerged(a) ==
    \A b \in Addrs : SeqRange(tasks[a].dag[b]) \subseteq SeqRange(dag[b])

\* C10 as stated: a failed forward build does not abort the others, the
\* sub-DAGs of all the tasks that complete are merged, and the call completes
\* when at least one task completes.
C10_FailureDoesNotAbortOthers ==
    ContinueReturned =>
        /\ \A a \in Addrs : tasks[a].st # "aborted"
        /\ \A a \in Addrs : tasks[a].result = "Ok" => SubDagMerged(a)
        /\ (\E a \in Addrs : tasks[a].result = "Ok") => ret.res = "Ok"

JoinedOk == {a \in Addrs : tasks[a].st = "joined" /\ tasks[a].result = "Ok"}

\* C10 as amended: the first failed forward build that is joined ends the
\* call with FailedToGetSpend; the DAG then holds what it held before and
\* the sub-DAGs of the tasks joined before the failure, and nothing of the
\* tasks dropped; the call returns Ok only when every task completed, with
\* every sub-DAG merged.
C10_FailureEndsContinuation ==
    ContinueReturned =>
        /\ ret.res \in {"Ok", "FailedToGetSpend"}
        /\ ret.res = "Ok" =>
              \A a \in Addrs : /\ tasks[a].st \in {"idle", "joined"}
                               /\ tasks[a].result # "FailedToGetSpend"
        /\ ret.res = "FailedToGetSpend" =>
              /\ tasks[ret.at].st \in {"joined", "panicked"}
              /\ tasks[ret.at].result \in {"FailedToGetSpend", "JoinError"}
        /\ \A b \in Addrs :
              SeqRange(dag[b]) =
                 SeqRange(hv.dag0[b]) \cup UNION {SeqRange(tasks[a].dag[b]) : a \in JoinedOk}

\* the call failed and dropped a forward build that had completed with
\* spends the DAG does not hold
C10_Witness ==
    /\ ContinueReturned
    /\ ret.res = "FailedToGetSpend"
    /\ \E a \in Addrs : /\ tasks[a].st = "aborted"
                        /\ tasks[a].result = "Ok"
                        /\ ~SubDagMerged(a)

\* C11: continue_from_utxos returns FailedToGetSpend whenever one of its
\* forward builds panicked (its join reports a JoinError) or failed on the
\* Transient answer to the GET of its root.
C11_TaskFailureIsHardError ==
    (ContinueReturned
        /\ \E a \in Addrs : \/ tasks[a].result = "JoinError"
                            \/ tasks[a].rootKind = "Transient")
    => ret.res = "FailedToGetSpend"

\* the call failed with one forward build panicked and another one failed on
\* its root GET
C11_Witness ==
    /\ ContinueReturned
    /\ ret.res = "FailedToGetSpend"
    /\ \E a \in Addrs : tasks[a].result = "JoinError" /\ tasks[a].st = "panicked"
    /\ \E a \in Addrs : tasks[a].rootKind = "Transient"
                        /\ tasks[a].result = "FailedToGetSpend"

\* the same address states, up to the order of the spends of a marker
SameAddressStates(d1, d2) == \A b \in Addrs : SeqRange(d1[b]) = SeqRange(d2[b])

\* the sub-DAGs of the forward builds of the addresses in us, merged into d
RECURSIVE MergeSubDags(_, _)
MergeSubDags(d, us) ==
    IF us = {} THEN d
    ELSE LET u == CHOOSE x \in us : TRUE
         IN MergeSubDags(Merge(d, tasks[u].dag), us \ {u})

\* the DAG holds a spend of every address the store can be descended to from
\* the UTXOs of the DAG the call began with
ReachableContained ==
    \A u \in GetUtxos(hv.dag0) : \A b \in Reachable(u) :
        \E s \in store[b] : Contains(dag, b, s)

C15_KnownSpendReturnsAtOnce ==
    (ExtendReturned /\ Contains(ex.dag0, ex.addr, ex.spend)) =>
        /\ ret.res = "Ok"
        /\ dag = ex.dag0
        /\ ex.nGets = 0
        /\ ex.verified = {}
        /\ ex.depth = 0

\* the second extend_until of one spend
C15_Witness ==
    /\ ExtendReturned
    /\ nOps = 2
    /\ Contains(ex.dag0, ex.addr, ex.spend)
    /\ ret = Ret("extend", ex.addr, "Ok")

\* the spends the GETs of the parent transaction in hand were answered with
FetchedSpends == {ex.res[i].spend : i \in 1..Len(ex.res)}

\* the step that joins the GETs of a parent transaction, all of them answered
\* with a spend
JoinsFetched ==
    /\ pc = "extend"
    /\ ex.st = "fetch"
    /\ \A i \in 1..Len(ex.res) : ex.res[i].kind = "Ok"
    /\ ex' # ex

\* C16: when verify_against_inputs_spent rejects a parent transaction that
\* is not the Genesis short-circuit against the spends fetched for its
\* inputs, extend_until returns CouldNotVerifyTransfer and the step inserts
\* none of those spends into the DAG.
C16_RejectedTxAborts ==
    [][(/\ JoinsFetched
        /\ ~ReachedGenesis(ex.cur, FetchedSpends)
        /\ ~VerifyAgainstInputsSpent(ex.cur, FetchedSpends))
       => /\ ex'.st = "failed"
          /\ ex'.failedTx = ex.cur
          /\ pc' = "idle"
          /\ ret' = Ret("extend", ex.addr, "CouldNotVerifyTransfer")
          /\ dag' = dag]_vars

\* the call failed on T2, fetched with the spend of key 2 that spends its key
\* in T2b, and the DAG holds neither spend fetched for T2
C16_Witness ==
    /\ ExtendReturned
    /\ ret.res = "CouldNotVerifyTransfer"
    /\ ~ex.errSeen
    /\ ex.failedTx = T2
    /\ S2b \in store[AddressOf(2)]
    /\ ~Contains(dag, AddressOf(2), S2b)
    /\ ~Contains(dag, AddressOf(3), S2b)
    /\ S3 \notin DagSpends(dag)

\* the parent transactions the call has yet to fetch and verify
ToProcess(e) ==
    SeqRange(e.queue) \cup e.next \cup (IF e.st = "fetch" THEN {e.cur} ELSE {})

\* C17: when the parent transaction is GENESIS.src_tx and the spends fetched
\* for it are the one spend of GENESIS.id, extend_until records its hash as
\* verified, does not fail on a verification of it against that spend,
\* inserts nothing and enqueues no parent transaction.
C17_GenesisEndsTraversal ==
    [][(JoinsFetched /\ ReachedGenesis(ex.cur, FetchedSpends))
       => /\ ex'.st # "failed"
          /\ Hash(ex.cur) \in ex'.verified
          /\ dag' = dag
          /\ ToProcess(ex') \subseteq (SeqRange(ex.queue) \cup ex.next)]_vars

\* the call for the spend of key 4 went up to the Genesis transaction, which
\* verify_against_inputs_spent rejects against the Genesis spend, and
\* returned Ok
C17_Witness ==
    /\ ExtendReturned
    /\ ret.res = "Ok"
    /\ ex.spend = S4
    /\ Hash(GenesisTx) \in ex.genesis
    /\ Hash(GenesisTx) \in ex.verified
    /\ ~VerifyAgainstInputsSpent(GenesisTx, {SG})
    /\ ex.depth = 3

\* the spends the store holds for the inputs of the parent transaction of s
ParentSpends(s) ==
    UNION {store[AddressOf(k)] : k \in SeqRange(s.parent_tx.inputs)}

\* the spend s and its ancestors in the store
RECURSIVE Ancestry(_)
Ancestry(A) ==
    LET B == A \cup UNION {ParentSpends(s) : s \in A}
    IN IF B = A THEN A ELSE Ancestry(B)

\* the parent transactions of s chain back to GENESIS.src_tx, the store holds
\* one spend for every input on the way and every verification passes
ChainsToGenesis(s) ==
    /\ WellFormed
    /\ \E x \in Ancestry({s}) : x.parent_tx = GenesisTx
    /\ \A x \in Ancestry({s}) :
          /\ \A k \in SeqRange(x.parent_tx.inputs) : store[AddressOf(k)] # {}
          /\ \/ ReachedGenesis(x.parent_tx, ParentSpends(x))
             \/ VerifyAgainstInputsSpent(x.parent_tx, ParentSpends(x))

\* C18: extend_until on an empty DAG, with a spend whose parent transactions
\* chain back to GENESIS.src_tx through spends the store holds and
\* verifications that pass, returns Ok when every GET is answered with the
\* spend, and the DAG then holds the spend and every ancestor spend of the
\* chain, the input spend of GENESIS.src_tx among them (each one at its own
\* address when the transactions of the chain have one input each).
C18_ChainToGenesisSucceeds ==
    (ExtendReturned /\ ex.dag0 = EmptyDag /\ ChainsToGenesis(ex.spend) /\ ~ex.errSeen) =>
        /\ ret.res = "Ok"
        /\ Contains(dag, ex.addr, ex.spend)
        /\ Ancestry({ex.spend}) \subseteq DagSpends(dag)
        /\ store[AddressOf(GenesisId)] \subseteq DagSpends(dag)
        /\ (\A x \in Ancestry({ex.spend}) : Len(x.parent_tx.inputs) = 1) =>
              \A x \in Ancestry({ex.spend}) : Contains(dag, AddressOf(x.unique_pubkey), x)

\* the spend of key 4 on an empty DAG: two transactions between its own and
\* the Genesis transaction, three ancestor spends
C18_Witness ==
    /\ ExtendReturned
    /\ ex.dag0 = EmptyDag
    /\ ChainsToGenesis(ex.spend)
    /\ ex.spend = S4
    /\ ret.res = "Ok"
    /\ DagSpends(dag) = {S4, S3, S2, SG}

\* every spend the store can answer with for an input of the parent
\* transaction of new_spend was in the DAG, at its address, before the call
ParentInputsKnown ==
    \A k \in SeqRange(ex.spend.parent_tx.inputs) :
        /\ store[AddressOf(k)] # {}
        /\ \A s \in store[AddressOf(k)] : Contains(ex.dag0, AddressOf(k), s)

\* C19: extend_until does not ascend from a spend the DAG already holds: when
\* new_spend is new, its parent transaction is verified and all the input
\* spends of that transaction were already in the DAG, the call returns Ok
\* after depth 1, with that one transaction verified and new_spend the only
\* addition to the DAG.
C19_StopsAtKnownSpends ==
    (/\ ExtendReturned
     /\ ~Contains(ex.dag0, ex.addr, ex.spend)
     /\ ParentInputsKnown
     /\ Hash(ex.spend.parent_tx) \in ex.verified)
    => /\ ret.res = "Ok"
       /\ ex.depth = 1
       /\ ex.verified = {Hash(ex.spend.parent_tx)}
       /\ AddedByExtend = {<<ex.addr, ex.spend>>}

(***************************************************************************)
(* Properties of the generations of spend_dag_build_from.                  *)
(***************************************************************************)
\* a step of the build at a that changes its DAG, its known transactions or
\* its generation, or issues GETs, while it is fetching: every GET of the
\* generation has been answered, and every spend answered is applied
BarrierStep(a) ==
    LET t == tasks[a]
        u == tasks'[a]
    IN (/\ t.st = "fetch"
        /\ u.st \in {"fetch", "verify", "done"}
        /\ \/ u.dag # t.dag
           \/ u.known # t.known
           \/ u.gen # t.gen
           \/ u.nGets # t.nGets
           \/ u.addrs # t.addrs)
       => /\ \A i \in 1..Len(t.res) : t.res[i] # Pending
          /\ \A i \in 1..Len(t.res) :
                t.res[i].kind = "Ok" => Contains(u.dag, t.addrs[i], t.res[i].spend)
          /\ u.gen = t.gen + 1

\* C13: in build_from no GET of generation g+1 is issued, and the DAG and
\* known_tx do not change, before every GET of generation g has been joined
\* and its result applied.
C13_GenerationBarrier == [][\A a \in Addrs : BarrierStep(a)]_vars

\* a build in its third generation, after a generation of two GETs
C13_Witness ==
    \E a \in Addrs :
        /\ tasks[a].st = "fetch"
        /\ tasks[a].gen >= 2
        /\ Cardinality(tasks[a].got) >= 3
        /\ \E i \in 1..Len(tasks[a].res) : tasks[a].res[i] = Pending

\* the orders in which the n answers of a generation can be applied
Perms(n) == {f \in [1..n -> 1..n] : \A i, j \in 1..n : f[i] = f[j] => i = j}

\* the answers applied to the DAG in the order f, from its k-th place on
RECURSIVE ApplyInOrder(_, _, _, _, _)
ApplyInOrder(d, res, addrs, f, k) ==
    IF k > Len(res) THEN d
    ELSE ApplyInOrder(
            IF res[f[k]].kind = "Ok" THEN Insert(d, addrs[f[k]], res[f[k]].spend) ELSE d,
            res, addrs, f, k + 1)

\* what the responses of the build at a put at address b: the spends of the
\* answers of its generations and the answer to the GET of its root
Responded(a, b) ==
    {p[2] : p \in {q \in tasks[a].got : q[1] = b}}
    \cup (IF b = a /\ tasks[a].rootKind = "Ok" THEN {tasks[a].first} ELSE {})

\* C14: the DAG build_from returns is determined by the responses of the
\* store: in whatever order the answers of a generation are applied, the
\* DAG after the generation has the same entries and the same double-spend
\* markers, up to the order of the spends of a marker, and the same
\* transactions are followed next.
C14_BuildIsDeterministic ==
    \A a \in Addrs :
        LET t == tasks[a]
        IN /\ (t.st = "fetch" /\ \A i \in 1..Len(t.res) : t.res[i] # Pending) =>
                 \A f \in Perms(Len(t.res)) :
                    SameAddressStates(ApplyInOrder(t.dag, t.res, t.addrs, f, 1),
                                      Collate(t).dag)
           /\ t.st \in {"fetch", "verify", "done", "joined"} =>
                 \A b \in Addrs :
                    /\ SeqRange(t.dag[b]) = Responded(a, b)
                    /\ Len(t.dag[b]) = Cardinality(Responded(a, b))

\* a build that got the two spends of key 4 in one generation, the second
\* spend first
C14_Witness ==
    \E a \in Addrs :
        /\ tasks[a].st = "done"
        /\ tasks[a].dag[AddressOf(4)] = <<S4b, S4>>

(***************************************************************************)
(* Properties of the address states of the SpendDag.                       *)
(***************************************************************************)
\* the state of every address in e is the one in d or a later one: nothing
\* recorded is lost, a present address stays, a marker stays a marker
Grows(d, e) ==
    \A a \in Addrs :
        /\ SeqRange(d[a]) \subseteq SeqRange(e[a])
        /\ Len(d[a]) <= Len(e[a])

\* insert and check_and_insert of any spend at an address the DAG d holds:
\* only that address changes, it keeps what it held, an equal spend changes
\* nothing and a marker is still one after the spend is inserted again
InsertsGrow(d) ==
    \A a \in DagAddrs(d) : \A s \in SpendsAt(a) :
        LET e == Insert(d, a, s)
        IN /\ e = [d EXCEPT ![a] = e[a]]
           /\ SeqRange(d[a]) \subseteq SeqRange(e[a])
           /\ Len(d[a]) <= Len(e[a])
           /\ CheckAndInsert(d, a, s) = e
           /\ Contains(d, a, s) => e = d
           /\ IsDoubleSpend(d, a) => IsDoubleSpend(Insert(e, a, s), a)

\* the DAG of a forward build from its first insert on
Building(t) == t.st \in {"fetch", "verify", "done", "joined", "aborted"}

\* C20: an address never leaves the DAG and a double-spend marker never
\* turns back into a single spend: not by insert or check_and_insert on any
\* DAG the operations produce (re-inserting a spend of a marker changes
\* nothing), and not in any step of build_from, extend_until or
\* continue_from_utxos, its merges and the calls that fail included.
C20_MonotonicAddressState ==
    /\ [](pc = "idle" => InsertsGrow(dag))
    /\ [][/\ dag' # dag => Grows(dag, dag')
          /\ \A a \in Addrs :
                (Building(tasks[a]) /\ tasks'[a].dag # tasks[a].dag /\ Building(tasks'[a]))
                    => Grows(tasks[a].dag, tasks'[a].dag)]_vars

\* a call of extend_until that marked the address of key 2 as a double spend
\* with its new spend, went on to insert ancestors, and failed
C20_Witness ==
    /\ ExtendReturned
    /\ ret.res = "CouldNotVerifyTransfer"
    /\ dag[AddressOf(2)] = <<S2, S2b>>
    /\ ex.spend = S2b
    /\ ex.depth >= 1

\* check_and_insert(a, s) on the DAG d, and the same call again
SecondCallChangesNothing(d, a, s) ==
    LET d1 == CheckAndInsert(d, a, s)
        r2 == ExtendStarted(d1, a, s)
    IN /\ (CheckAndInsertIsNew(d, a, s) <=> ~Contains(d, a, s))
       /\ ~CheckAndInsertIsNew(d1, a, s)
       /\ CheckAndInsert(d1, a, s) = d1
       /\ r2.dag = d1
       /\ r2.ex.st = "ok"

\* C21: check_and_insert(a, s) is idempotent on every DAG the operations
\* return, for every spend s of the key of a and every spend the DAG holds
\* at a: whatever the first call reports, the same call again reports false
\* and leaves the DAG unchanged, and extend_until then returns at once.
C21_CheckAndInsertIdempotent ==
    [](pc = "idle" =>
        \A a \in Addrs :
            \A s \in SpendsAt(a) \cup SeqRange(dag[a]) : SecondCallChangesNothing(dag, a, s))

\* a DAG with a double-spend marker, on which the first call reports true for
\* one spend and false for a spend of the marker
C21_Witness ==
    /\ pc = "idle"
    /\ IsDoubleSpend(dag, AddressOf(2))
    /\ Contains(dag, AddressOf(2), S2b)
    /\ ~CheckAndInsertIsNew(dag, AddressOf(2), S2b)
    /\ CheckAndInsertIsNew(dag, AddressOf(4), S4)

(***************************************************************************)
(* Properties of merge and get_utxos.                                      *)
(***************************************************************************)
\* the same address states with the same addresses marked
SameStates(d1, d2) ==
    \A b \in Addrs :
        /\ SeqRange(d1[b]) = SeqRange(d2[b])
        /\ (IsDoubleSpend(d1, b) <=> IsDoubleSpend(d2, b))

\* the DAG after the join of the completed forward build at a into d
JoinInto(d, a) == Joined(d, tasks, a).dag

\* the DAG after the join of a forward build that returned the DAG d, into
\* the DAG the forward build at a returned
JoinOnto(d, a) == Joined(tasks[a].dag, [tasks EXCEPT ![a].dag = d], a).dag

\* C22: merge is commutative up to the order of the spends of a marker:
\* merging the sub-DAG of a completed forward build into the DAG and merging
\* the DAG into the sub-DAG give the same address states, and so do the
\* joins of two completed forward builds in either order.
C22_MergeCommutes ==
    pc = "continue" =>
        \A a \in Addrs :
            (tasks[a].st = "done" /\ tasks[a].result = "Ok") =>
                /\ SameStates(Merge(dag, tasks[a].dag), Merge(tasks[a].dag, dag))
                /\ SameStates(JoinInto(dag, a), JoinOnto(dag, a))
                /\ \A b \in Addrs :
                      (tasks[b].st = "done" /\ tasks[b].result = "Ok") =>
                          SameStates(JoinInto(JoinInto(dag, a), b),
                                     JoinInto(JoinInto(dag, b), a))

\* the DAG after the joins of the ended tasks a and b in this order; the
\* loop ends at the first join that fails
JoinBoth(d, a, b) ==
    LET j == Joined(d, tasks, a)
    IN IF j.res = "none" THEN Joined(j.dag, j.tasks, b).dag ELSE j.dag

\* C22 as stated: the DAG continue_from_utxos leaves does not depend on
\* the order in which any two sub-builds finish
C22_OrderNeverMatters ==
    pc = "continue" =>
        \A a, b \in Addrs :
            (tasks[a].st \in {"done", "panicked"} /\ tasks[b].st \in {"done", "panicked"})
                => SameStates(JoinBoth(dag, a, b), JoinBoth(dag, b, a))

\* the forward build of the UTXO of key 3 got the second spend of key 4 and
\* its sub-DAG is about to be merged into a DAG that holds the first one
C22_Witness ==
    /\ pc = "continue"
    /\ tasks[AddressOf(3)].st = "done"
    /\ dag[AddressOf(4)] = <<S4>>
    /\ tasks[AddressOf(3)].dag[AddressOf(4)] = <<S4b>>
    /\ Merge(dag, tasks[AddressOf(3)].dag)[AddressOf(4)] = <<S4, S4b>>
    /\ Merge(tasks[AddressOf(3)].dag, dag)[AddressOf(4)] = <<S4b, S4>>

\* a is absent from d and is the address of an output key of the spent
\* transaction of a spend of d
IsUtxoOf(d, a) ==
    /\ d[a] = <<>>
    /\ \E s \in DagSpends(d) : \E k \in SeqRange(s.spent_tx.outputs) : AddressOf(k) = a

\* C23: on every DAG the operations produce, get_utxos returns only addresses
\* absent from the DAG, each the address of an output key of the spent
\* transaction of a spend of the DAG, and continue_from_utxos spawns its
\* forward builds at such addresses of the DAG it was called with.
C23_UtxosAbsentOutputs ==
    [](/\ \A a \in GetUtxos(dag) : IsUtxoOf(dag, a)
       /\ \A b \in Addrs :
             tasks[b].st = "done" =>
                 \A a \in GetUtxos(tasks[b].dag) : IsUtxoOf(tasks[b].dag, a)
       /\ pc = "continue" =>
             \A a \in Addrs : tasks[a].st # "idle" => IsUtxoOf(hv.dag0, a))

\* a continuation of the DAG extend_until made of the Genesis spend alone:
\* forward builds run at the two outputs of its spent transaction
C23_Witness ==
    /\ pc = "continue"
    /\ hv.dag0[AddressOf(1)] = <<SG>>
    /\ GetUtxos(hv.dag0) = {AddressOf(2), AddressOf(3)}
    /\ tasks[AddressOf(2)].st = "done"
    /\ tasks[AddressOf(3)].st = "fetch"
    /\ GetUtxos(tasks[AddressOf(2)].dag) # {}

(***************************************************************************)
(* Further properties of spend_dag_build_from.                             *)
(***************************************************************************)
\* C24: the verification that ends build_from is advisory: it leaves the
\* DAG as the traversal made it and the result Ok whatever it records, and
\* build_from returns that DAG, the double-spend markers included.
C24_VerificationAdvisory ==
    /\ [](BuildReturned =>
            /\ ret.res = "Ok" <=> tasks[ret.at].rootKind \in {"Ok", "Missing"}
            /\ ret.res = "Ok" => dag = tasks[ret.at].dag)
    /\ [][\A a \in Addrs :
            (tasks[a].st = "verify" /\ tasks'[a] # tasks[a]) =>
                /\ tasks'[a].st = "done"
                /\ tasks'[a].result = "Ok"
                /\ tasks'[a].dag = tasks[a].dag
                /\ tasks'[a].issues = Verify(tasks[a].dag, a)]_vars

\* the store served both spends of key 4 to one build, which returned Ok
\* with the marker and the recorded double spend
C24_Witness ==
    /\ BuildReturned
    /\ ret.res = "Ok"
    /\ dag[AddressOf(4)] = <<S4, S4b>>
    /\ [kind |-> "DoubleSpend", at |-> AddressOf(4)] \in tasks[ret.at].issues

(***************************************************************************)
(* Further properties of spend_dag_continue_from_utxos.                    *)
(***************************************************************************)
\* the tasks whose sub-DAG a step writes
Writers == {a \in Addrs : tasks'[a].dag # tasks[a].dag /\ tasks'[a].st \notin {"idle", "panicked"}}

\* the tasks a step joins
JoinedNow == {a \in Addrs : tasks[a].st = "done" /\ tasks'[a].st = "joined"}

\* C25: the sub-builds of continue_from_utxos do not share the DAG of the
\* caller: each starts from an empty DAG of its own and writes only to it,
\* and the DAG of the caller is written only by the join of one completed
\* task at a time, in a step in which no sub-build writes.
C25_ParentDagNotShared ==
    [][/\ (pc = "idle" /\ pc' = "continue") =>
            /\ dag' = dag
            /\ \A a \in Addrs : tasks'[a].dag = EmptyDag
       /\ (pc = "continue") =>
            /\ Cardinality(Writers) <= 1
            /\ Writers # {} => (dag' = dag /\ JoinedNow = {})
            /\ dag' # dag =>
                  /\ Writers = {}
                  /\ \E a \in Addrs :
                        /\ JoinedNow = {a}
                        /\ dag' = Merge(dag, tasks[a].dag)]_vars

\* the sub-DAG of one forward build is merged while another one is still
\* fetching into its own DAG
C25_Witness ==
    /\ pc = "continue"
    /\ tasks[AddressOf(2)].st = "joined"
    /\ dag[AddressOf(2)] = <<S2>>
    /\ tasks[AddressOf(3)].st = "fetch"
    /\ tasks[AddressOf(3)].dag[AddressOf(3)] = <<S3>>
    /\ dag[AddressOf(3)] = <<>>

\* b is the address of an output key of the spent transaction of a spend of
\* d other than s
IsChildAddress(d, b, s) ==
    \E p \in DagSpends(d) \ {s} :
        \E k \in SeqRange(p.spent_tx.outputs) : AddressOf(k) = b

\* C27: in every state of build_from(root), each spend of its DAG is the
\* root spend or sits at the address of an output key of the spent
\* transaction of another spend of the DAG, which was in the DAG before it.
C27_RootReachable ==
    /\ [](\A a \in Addrs : \A b \in Addrs : \A s \in SeqRange(tasks[a].dag[b]) :
             \/ b = a /\ s = tasks[a].first
             \/ IsChildAddress(tasks[a].dag, b, s))
    /\ [][\A a \in Addrs : \A b \in Addrs :
             \A s \in SeqRange(tasks'[a].dag[b]) \ SeqRange(tasks[a].dag[b]) :
                \/ tasks[a].st = "root" /\ b = a /\ s = tasks'[a].first
                \/ IsChildAddress(tasks[a].dag, b, s)]_vars

\* a forward build from Genesis holds three generations of descendants,
\* with both spends of key 4
C27_Witness ==
    /\ pc = "build"
    /\ tasks[AddressOf(1)].st = "done"
    /\ tasks[AddressOf(1)].first = SG
    /\ tasks[AddressOf(1)].dag[AddressOf(2)] = <<S2b>>
    /\ IsDoubleSpend(tasks[AddressOf(1)].dag, AddressOf(4))

(***************************************************************************)
(* Retry of the abandoned branches.                                        *)
(***************************************************************************)
\* the addresses of which the forward build t got a spend
GotAt(t) == {p[1] : p \in t.got}

\* the forward build spawned at b is in the DAG with what it collected
Retried(b) ==
    (tasks[b].st = "joined" /\ tasks[b].rootKind = "Ok") =>
        /\ Contains(dag, b, tasks[b].first)
        /\ SubDagMerged(b)
        /\ \A p \in tasks[b].got : Contains(dag, p[1], p[2])

\* C28 as stated: every address of which a GET of the build failed with a
\* Transient error is absent from the returned DAG and one of its UTXOs, and
\* the forward build of a UTXO that got its spend ends up in the DAG.
C28_EveryTransientRetried ==
    /\ (BuildReturned /\ ret.res = "Ok") =>
          \A b \in tasks[ret.at].lost : dag[b] = <<>> /\ b \in GetUtxos(dag)
    /\ ContinueReturned =>
          \A b \in Addrs : tasks[b].rootKind = "Ok" => Contains(dag, b, tasks[b].first)

\* C28: an address of which the build got no spend and a GET failed with a
\* Transient error is absent from the returned DAG and one of its UTXOs; the
\* next continue_from_utxos spawns a forward build at every UTXO of the DAG,
\* and the spend and the descendants that a joined forward build got are in
\* the DAG.
C28_TransientRetriedByContinue ==
    /\ (BuildReturned /\ ret.res = "Ok") =>
          \A b \in tasks[ret.at].lost \ (GotAt(tasks[ret.at]) \cup {ret.at}) :
              dag[b] = <<>> /\ b \in GetUtxos(dag)
    /\ pc = "continue" => \A b \in GetUtxos(hv.dag0) : tasks[b].st # "idle"
    /\ (pc = "continue" \/ ContinueReturned) => \A b \in Addrs : Retried(b)

\* the GET of key 3 failed in the build from Genesis; the continuation got
\* its spend and the spend of key 4 under it, and both are in the DAG
C28_Witness ==
    /\ ContinueReturned
    /\ ret.res = "Ok"
    /\ hv.dag0[AddressOf(1)] = <<SG>>
    /\ hv.dag0[AddressOf(2)] = <<>>
    /\ hv.dag0[AddressOf(3)] = <<>>
    /\ store[AddressOf(2)] = {}
    /\ nTransient = 1
    /\ tasks[AddressOf(3)].first = S3
    /\ dag[AddressOf(3)] = <<S3>>
    /\ dag[AddressOf(4)] = <<S4>>

(***************************************************************************)
(* Deduplication by transaction hash.                                      *)
(***************************************************************************)
TxsOf(hashes) == {tx \in Txs : Hash(tx) \in hashes}

\* the number of GETs that fetch once the outputs of each of the transactions
RECURSIVE OutputGets(_)
OutputGets(txs) ==
    IF txs = {} THEN 0
    ELSE LET tx == CHOOSE x \in txs : TRUE
         IN Len(tx.outputs) + OutputGets(txs \ {tx})

\* the number of GETs that fetch once the inputs of each of the transactions
RECURSIVE InputGets(_)
InputGets(txs) ==
    IF txs = {} THEN 0
    ELSE LET tx == CHOOSE x \in txs : TRUE
         IN Len(tx.inputs) + InputGets(txs \ {tx})

\* the forward build t has fetched the outputs of each transaction once
FollowedOnce(t) ==
    /\ \A tx \in t.follow : Hash(tx) \notin t.known
    /\ t.st \in {"fetch", "verify", "done", "joined"} =>
          t.nGets = 1 + OutputGets(TxsOf(t.known) \cup t.follow)

\* the parent transactions the ascent has fetched the inputs of
Fetched(e) == TxsOf(e.verified) \cup (IF e.st \in {"fetch", "failed"} THEN {e.cur} ELSE {})

\* the ascent e has fetched the inputs of each parent transaction once
VerifiedOnce(e) ==
    /\ e.nGets = InputGets(Fetched(e))
    /\ e.st = "fetch" =>
          /\ Hash(e.cur) \notin e.verified
          /\ \A i \in 1..Len(e.queue) :
                /\ Hash(e.queue[i]) \notin e.verified
                /\ e.queue[i] # e.cur
                /\ \A j \in 1..Len(e.queue) : e.queue[i] = e.queue[j] => i = j

\* C26: both traversals deduplicate by transaction hash: a forward build
\* fetches the outputs of no transaction in more than one generation, and an
\* ascent fetches and verifies no parent transaction more than once, also
\* when two of its spends share a parent.
C26_DeduplicatedByTxHash ==
    /\ \A a \in Addrs : FollowedOnce(tasks[a])
    /\ VerifiedOnce(ex)

\* the ascent from S6d met T1 as the parent of S3d and, one depth later, as
\* the parent of S2b, and went on to Genesis with one GET per input of the
\* four transactions
C26_Witness ==
    /\ pc = "idle"
    /\ ret = Ret("extend", AddressOf(6), "Ok")
    /\ ex.spend = S6d
    /\ ex.verified = {Hash(T4), Hash(T1), Hash(T2b), Hash(GenesisTx)}
    /\ ex.nGets = 5
    /\ ex.depth = 3

(***************************************************************************)
(* Linear chains.                                                          *)
(***************************************************************************)
The(S) == CHOOSE x \in S : TRUE

\* the output addresses of the spent transaction of s
SpentOutputs(s) == {AddressOf(k) : k \in SeqRange(s.spent_tx.outputs)}

\* the number of spends of the linear chain the store holds from a on (one
\* spend per address, at most one spent output per transaction), 0 when a is
\* unspent, -1 when what the store holds from a on is no linear chain
RECURSIVE ChainLen(_, _)
ChainLen(a, fuel) ==
    IF store[a] = {} THEN 0
    ELSE IF Cardinality(store[a]) # 1 \/ fuel = 0 THEN -1
    ELSE LET spent == {b \in SpentOutputs(The(store[a])) : store[b] # {}}
         IN IF spent = {} THEN 1
            ELSE IF Cardinality(spent) # 1 THEN -1
            ELSE LET r == ChainLen(The(spent), fuel - 1)
                 IN IF r < 0 THEN -1 ELSE 1 + r

\* the addresses of the chain from a on
RECURSIVE ChainAddrs(_, _)
ChainAddrs(a, n) ==
    IF n = 0 THEN {}
    ELSE LET spent == {b \in SpentOutputs(The(store[a])) : store[b] # {}}
         IN {a} \cup IF spent = {} THEN {} ELSE ChainAddrs(The(spent), n - 1)

\* C31: for a store holding a linear chain of n spends from the root on,
\* whose other outputs are unspent, a build whose GETs are all answered by
\* the store returns the DAG of exactly those n entries, its UTXOs are
\* exactly the unspent output addresses, and its generation counter ends at n.
C31_LinearChain ==
    \A a \in Addrs :
        LET t == tasks[a]
            n == ChainLen(a, Cardinality(Keys))
        IN (Completed(t) /\ t.result = "Ok" /\ t.lost = {} /\ n >= 1) =>
              /\ DagAddrs(t.dag) = ChainAddrs(a, n)
              /\ Cardinality(DagAddrs(t.dag)) = n
              /\ \A b \in DagAddrs(t.dag) : t.dag[b] = <<The(store[b])>>
              /\ GetUtxos(t.dag) =
                    {b \in UNION {SpentOutputs(The(store[c])) : c \in ChainAddrs(a, n)} :
                        store[b] = {}}
              /\ t.gen = n

\* the chain SG, S2b, S4 with the unspent outputs of keys 3 and 6
C31_Witness ==
    LET t == tasks[AddressOf(1)]
    IN /\ Completed(t)
       /\ ChainLen(AddressOf(1), Cardinality(Keys)) = 3
       /\ t.dag[AddressOf(2)] = <<S2b>>
       /\ t.dag[AddressOf(4)] = <<S4>>
       /\ GetUtxos(t.dag) = {AddressOf(3), AddressOf(6)}
       /\ t.gen = 3
       /\ t.lost = {}

(***************************************************************************)
(* The barrier of the backward extension.                                  *)
(***************************************************************************)
\* a GET of the parent transaction being verified is still outstanding
GetOutstanding == \E i \in 1..Len(ex.res) : ex.res[i] = Pending

\* the extension writes the DAG, turns to the next parent transaction or returns
ExtendMoves == pc = "extend" /\ (dag' # dag \/ pc' # pc \/ ex'.cur # ex.cur)

\* the statement as claimed: the extension writes to the DAG only when no
\* parent transaction of the depth is left to fetch
C32_BarrierPerDepth ==
    [][(pc = "extend" /\ dag' # dag) => (ex.queue = <<>> /\ ~GetOutstanding)]_vars

\* C32: the GETs of one parent transaction are issued together, one per
\* input, and joined before the extension writes to the DAG, turns to the
\* next parent transaction or returns; what a write adds was fetched for
\* that parent transaction.  The parent transactions of one depth are
\* fetched one after the other.
C32_BarrierPerParentTx ==
    [][ExtendMoves =>
          /\ ~GetOutstanding
          /\ Len(ex.res) = Len(ex.cur.inputs)
          /\ \A a \in Addrs : \A i \in 1..Len(dag'[a]) :
                 \/ \E j \in 1..Len(dag[a]) : dag[a][j] = dag'[a][i]
                 \/ \E k \in 1..Len(ex.res) : ex.res[k].spend = dag'[a][i]]_vars

\* the Genesis spend was added for the first parent transaction of depth 1
\* while the GET for the second one of that depth is outstanding
C32_Witness ==
    /\ pc = "extend"
    /\ ex.depth = 1
    /\ ex.queue = <<>>
    /\ GetOutstanding
    /\ Contains(dag, AddressOf(1), SG)
    /\ ~Contains(ex.dag0, AddressOf(1), SG)
    /\ ex.cur = T2b

(***************************************************************************)
(* The address of an entry.                                                *)
(***************************************************************************)
\* the store answers the GET of an address with spends of that address
StoreKeyedByOwnAddress ==
    \A a \in Addrs : \A s \in store[a] : AddressOf(s.unique_pubkey) = a

\* every entry of d is recorded under the address of its own unique_pubkey
UnderOwnAddress(d) ==
    \A a \in Addrs : \A i \in 1..Len(d[a]) : AddressOf(d[a][i].unique_pubkey) = a

\* C33: with a store that answers the GET of an address with spends of that
\* address, every entry of the DAG of the session and of the DAG of every
\* forward build is recorded under the address derived from its own
\* unique_pubkey.
C33_RecordedUnderOwnAddress ==
    StoreKeyedByOwnAddress =>
        /\ UnderOwnAddress(dag)
        /\ \A a \in Addrs : UnderOwnAddress(tasks[a].dag)

(***************************************************************************)
(* Missing answers.                                                        *)
(***************************************************************************)
\* the step of the build at a that applies a joined generation: an address
\* answered Missing keeps its entry, the transactions of the next generation
\* are spent transactions of the spends answered, and a generation answered
\* Missing throughout leaves the DAG as it was and is the last one
MissingStep(a) ==
    LET t == tasks[a]
        u == tasks'[a]
        n == Len(t.res)
        oks == {i \in 1..n : t.res[i].kind = "Ok"}
        missing == {i \in 1..n : t.res[i].kind = "Missing"}
    IN (t.st = "fetch" /\ u.st \in {"fetch", "verify"} /\ u.gen = t.gen + 1) =>
          /\ \A i \in missing : u.dag[t.addrs[i]] = t.dag[t.addrs[i]]
          /\ u.follow \subseteq {t.res[i].spend.spent_tx : i \in oks}
          /\ missing = 1..n => (u.dag = t.dag /\ u.follow = {} /\ u.st = "verify")

\* every forward build of the continuation got Missing for its root
AllUtxosMissing ==
    \A a \in GetUtxos(hv.dag0) : tasks[a].rootKind = "Missing"

\* C34: a Missing answer never changes the DAG.  In build_from a Missing
\* answer for an output leaves the DAG and the next generation as they are
\* without it, and continue_from_utxos on a DAG all of whose UTXOs the store
\* answers Missing returns Ok with the DAG unchanged.
C34_MissingChangesNothing ==
    /\ [][\A a \in Addrs : MissingStep(a)]_vars
    /\ []((ContinueReturned /\ AllUtxosMissing) => (ret.res = "Ok" /\ dag = hv.dag0))

\* a continuation of the DAG of SG, S2b and S3, whose one UTXO is the output
\* of key 4, returned after the store answered Missing
C34_Witness ==
    /\ ContinueReturned
    /\ AllUtxosMissing
    /\ GetUtxos(hv.dag0) = {AddressOf(4)}
    /\ Contains(dag, AddressOf(2), S2b)
    /\ tasks[AddressOf(4)].st = "joined"
    /\ dag = hv.dag0

(***************************************************************************)
(* Properties of the daemon.                                               *)
(***************************************************************************)
\* status Running holds exactly when the pid is set, and no call panicked
RunningIffPid ==
    /\ (daemon.status = "Running") = (daemon.pid # NoPid)
    /\ dout.res # "panic"

\* a call of stop_daemon is made in this step
StopCalled == hd' = hd + 1 /\ dout'.op = "stop"

\* a call of start_daemon is made in this step
StartCalled == hd' = hd + 1 /\ dout'.op = "start"

\* stop_daemon leaves a daemon that is not Running as it is, and calls no
\* service stop
StopLeavesNotRunning ==
    (StopCalled /\ daemon.status \in {"Added", "Removed", "Stopped"}) =>
        (daemon' = daemon /\ process' = process /\ dout'.res = "Ok" /\ ~dout'.called)

\* start_daemon on a daemon that is Running with a live process changes
\* nothing and calls no service start
StartLeavesRunning ==
    (StartCalled /\ daemon.status = "Running"
        /\ IsServiceProcessRunning(process, daemon.pid)) =>
        (daemon' = daemon /\ process' = process /\ dout'.res = "Ok" /\ ~dout'.called)

\* the statement as claimed: every stop_daemon on a Running daemon moves it
\* to Stopped and clears the pid
C35_StopAlwaysStops ==
    /\ []RunningIffPid
    /\ [][/\ (StopCalled /\ daemon.status = "Running") =>
               daemon' = Daemon("Stopped", NoPid)
          /\ StopLeavesNotRunning
          /\ StartLeavesRunning]_vars

\* C35: from a daemon that is Added with no pid on, status Running holds
\* exactly when the pid is set and the unwrap of start_daemon never panics.
\* stop_daemon on a Running daemon returns Ok with the daemon Stopped and its
\* pid cleared, unless the service process is live and the service stop
\* fails: then it returns the error and the daemon stays Running with its
\* pid.  stop_daemon leaves a daemon that is Added, Removed or Stopped
\* unchanged, and start_daemon on a daemon that is Running with a live
\* process changes nothing and calls no service start.
C35_DaemonLifecycle ==
    /\ []RunningIffPid
    /\ [][/\ (StopCalled /\ daemon.status = "Running") =>
               \/ /\ dout'.res = "Ok"
                  /\ daemon' = Daemon("Stopped", NoPid)
                  /\ dout'.called = dout'.live
               \/ /\ dout'.res = "Err"
                  /\ dout'.live /\ dout'.called
                  /\ daemon' = daemon
          /\ StopLeavesNotRunning
          /\ StartLeavesRunning]_vars

\* the third call stops a Running daemon whose process is live, and the
\* service stop succeeded
C35_Witness ==
    /\ hd = 3
    /\ dout.op = "stop"
    /\ dout.before.status = "Running"
    /\ dout.live /\ dout.called
    /\ dout.res = "Ok"
    /\ daemon = Daemon("Stopped", NoPid)

(***************************************************************************)
(* Properties of the wallet client.                                        *)
(***************************************************************************)
\* an operation of the wallet client is made in this step
WalletOp(ops) == hw' = hw + 1 /\ wout'.op \in ops

\* the network send of the operation succeeded: every request was stored
SendSucceeded(o) == o.attempted /\ o.stored = o.requests

\* C36: send_cash_note and pay_for_records clear the unconfirmed spend
\* requests of the wallet exactly when the network send of those requests
\* succeeded; when it fails they return an error and the wallet holds the
\* requests sent, those left from before and the new ones, which the next
\* resend_pending_txs sends again; when they fail before the send the
\* wallet is as it was.
C36_ClearedIffSent ==
    [][/\ WalletOp({"send_cash_note", "pay_for_records"}) =>
            /\ wout'.cleared = SendSucceeded(wout')
            /\ SendSucceeded(wout') => wallet'.unconfirmed_spend_requests = {}
            /\ (wout'.attempted /\ ~SendSucceeded(wout')) =>
                  /\ wout'.res \notin {"Ok", "none"}
                  /\ wallet'.unconfirmed_spend_requests = wout'.requests
                  /\ wallet.unconfirmed_spend_requests \subseteq wout'.requests
                  /\ wout'.requests # wallet.unconfirmed_spend_requests
            /\ ~wout'.attempted => (wallet' = wallet /\ wout'.res \notin {"Ok", "none"})
       /\ WalletOp({"resend_pending_txs"}) =>
            /\ wout'.requests = wallet.unconfirmed_spend_requests
            /\ wout'.cleared = SendSucceeded(wout')
            /\ wallet'.unconfirmed_spend_requests =
                  IF SendSucceeded(wout') THEN {} ELSE wallet.unconfirmed_spend_requests]_vars

\* the requests S2 and S3, retained when their send failed, were sent again
\* by resend_pending_txs and cleared
C36_Witness ==
    /\ wout.op = "resend_pending_txs"
    /\ wout.before = {S2, S3}
    /\ wout.requests = {S2, S3}
    /\ wout.cleared
    /\ wallet.unconfirmed_spend_requests = {}
    /\ S2 \in store[AddressOf(2)]

\* send was called with verify_store and returned
SentWithVerify == wout.op = "send" /\ wout.verify_store

ReceivedFromNetwork == {p[2].spend : p \in {q \in wout.answers : q[2].kind = "Ok"}}

\* every GET of the last verify returned a spend
EverySpendFetched == \A p \in wout.answers : p[2].kind = "Ok"

\* C38: Client::verify returns Ok exactly when every spend of the cash note
\* was fetched from the network and the set of the spends fetched equals
\* the signed_spends of the cash note; otherwise it returns
\* CouldNotVerifyTransfer.
C38_VerifyIffSameSpends ==
    wout.op = "verify" =>
        /\ (wout.res = "Ok") = (EverySpendFetched /\ ReceivedFromNetwork = wout.signed_spends)
        /\ wout.res \in {"Ok", "CouldNotVerifyTransfer"}
        /\ {p[1] : p \in wout.answers} = wout.signed_spends

\* a cash note of the spends S2 and S3 is verified after the network stored
\* both
C38_Witness ==
    /\ wout.op = "verify"
    /\ wout.signed_spends = {S2, S3}
    /\ wout.res = "Ok"
    /\ ReceivedFromNetwork = {S2, S3}

\* a cash note of the spend S2 is rejected: the network holds the spend S2b
\* of its key
C38_WitnessRejected ==
    /\ wout.op = "verify"
    /\ wout.signed_spends = {S2}
    /\ EverySpendFetched
    /\ ReceivedFromNetwork = {S2b}
    /\ wout.res = "CouldNotVerifyTransfer"

(***************************************************************************)
(* Properties of NodeRestart.                                              *)
(***************************************************************************)
\* C29: with loop_over, restart_next starts over once all the nodes have been
\* restarted: called after as many successful restarts as there are nodes,
\* it restarts the first node again and returns its RPC address when the
\* restart succeeds; None is returned only when loop_over is false.
C29_LoopOverStartsOver ==
    /\ out.kind = "None" => ~out.loop_over
    /\ (/\ out.kind # "none"
        /\ out.loop_over
        /\ inventory_file.len > 0
        /\ out.before = inventory_file.len
        /\ out.streak = inventory_file.len) =>
            /\ out.node = 1
            /\ out.restarted => (out.kind = "Some" /\ out.addr = RpcEndpoint(1))

\* C30: a call of restart_next that restarts a node leaves the index one
\* past it; a call whose restart fails leaves the index one past the node
\* if progress_on_error is set and on the node otherwise, and then the next
\* call is for the same node.
C30_IndexAdvancesByOne ==
    [][hr'.calls = hr.calls + 1 =>
         /\ (out'.attempted /\ out'.restarted) =>
                next_to_restart_idx' = next_to_restart_idx + 1
         /\ (out'.attempted /\ ~out'.restarted /\ out'.progress_on_error) =>
                next_to_restart_idx' = next_to_restart_idx + 1
         /\ (out'.attempted /\ ~out'.restarted /\ ~out'.progress_on_error) =>
                /\ next_to_restart_idx' = next_to_restart_idx
                /\ hr'.failed = out'.node
         /\ out'.attempted => out'.node = next_to_restart_idx + 1
         /\ hr.failed # 0 => (out'.node = hr.failed /\ out'.retry)]_vars

\* the restart of the second node failed without progress_on_error, and the
\* next call restarted the second node and returned its RPC address
C30_Witness ==
    /\ out.retry
    /\ out.kind = "Some"
    /\ out.node = 2
    /\ out.addr = RpcEndpoint(2)
    /\ next_to_restart_idx = 2
    /\ hr.calls = 3

=============================================================================
